---------------------------- MODULE Spec2Model ----------------------------
(***************************************************************************)
(* Survey-traverse computation and true-scale rendering of landcheck-api.  *)
(*                                                                         *)
(* Numbers.  The program computes in binary floating point; the model      *)
(* computes in exact fixed point:                                          *)
(*   - planar lengths (E, N, dE, dN, distance) in units of 1e-4 m,         *)
(*   - angles in units of 0.001 arc-second (mas), 360 deg = FullTurn,      *)
(*   - map ground extents in units of 1.27e-6 m (half of 1e-4 inch).       *)
(* round(v, 3) and the "%.2f" format are round-half-to-even at the printed *)
(* digit.  Rounding noise of the floating-point operations themselves      *)
(* (about 1e-16 relative) is not represented.                              *)
(***************************************************************************)
EXTENDS Integers, Sequences, FiniteSets, TLC

VARIABLES
    \* compute_back_computation / annotate_vertices
    op, coords, station_names, i, rows, sum_de, sum_dn, labels_out, pc, ret,
    \* the three bearing functions on one edge
    bp1, bp2, bres,
    \* deg_to_dms and its reading back
    dangle, dtext, dpc,
    \* the scale, the view extent and the scale bar of a raster rendering
    variant, scale_text, bounds, window, scale_ratio, xlim, ylim, rpc, scalebar,
    \* nice_grid_step of the three renderers on one span
    gspan, gres,
    \* concurrent export requests: the store, the files, pyplot's figures, the log
    plots, files, reqs, figs, canvas, nextfig, log,
    \* create_plot: the coordinates received, the polygon, the plots table
    cin, cpoly, cstore, cerr, crows, cpc,
    \* a document exporter embedding an intermediate raster
    exporter, png, edoc, eerr, epc,
    \* the area of one plot as each output prints it
    aplot, aout,
    \* one export of a survey plan to a CAD file
    cad_plot, cad_rows, cad_feat, cad_doc, cad_file, cad_err, cad_pc,
    \* the rotation of the annotation of one edge
    rp1, rp2, rres,
    \* the map image on page 2 of the report
    img_width_px, img_height_px, image_box, ipc,
    \* the layout fields of one survey-plan request
    form, route, call, sheet, fpc,
    \* the pages of one traverse-table document
    t_rows, t_i, t_y, t_page, t_titled, t_drawn, tpc,
    \* the rows of the store while plots are created
    s_plots, s_buffers, s_features, s_tx, s_next, s_seen

travVars == <<op, coords, station_names, i, rows, sum_de, sum_dn, labels_out, pc, ret>>
bearVars == <<bp1, bp2, bres>>
dmsVars  == <<dangle, dtext, dpc>>
scaleVars == <<variant, scale_text, bounds, window, scale_ratio, xlim, ylim, rpc, scalebar>>
gridVars == <<gspan, gres>>
exportVars == <<plots, files, reqs, figs, canvas, nextfig, log>>
createVars == <<cin, cpoly, cstore, cerr, crows, cpc>>
embedVars == <<exporter, png, edoc, eerr, epc>>
areaVars == <<aplot, aout>>
cadVars == <<cad_plot, cad_rows, cad_feat, cad_doc, cad_file, cad_err, cad_pc>>
rotVars == <<rp1, rp2, rres>>
placeVars == <<img_width_px, img_height_px, image_box, ipc>>
formVars == <<form, route, call, sheet, fpc>>
tableVars == <<t_rows, t_i, t_y, t_page, t_titled, t_drawn, tpc>>
storeVars == <<s_plots, s_buffers, s_features, s_tx, s_next, s_seen>>
vars == <<travVars, bearVars, dmsVars, scaleVars, gridVars, exportVars, createVars, embedVars, areaVars, cadVars, rotVars, placeVars, formVars, tableVars, storeVars>>

\* the variables an operation of one part leaves alone
exceptTrav == <<bearVars, dmsVars, scaleVars, gridVars, exportVars, createVars, embedVars, areaVars, cadVars, rotVars, placeVars, formVars, tableVars, storeVars>>
exceptBear == <<travVars, dmsVars, scaleVars, gridVars, exportVars, createVars, embedVars, areaVars, cadVars, rotVars, placeVars, formVars, tableVars, storeVars>>
exceptDms == <<travVars, bearVars, scaleVars, gridVars, exportVars, createVars, embedVars, areaVars, cadVars, rotVars, placeVars, formVars, tableVars, storeVars>>
exceptScale == <<travVars, bearVars, dmsVars, gridVars, exportVars, createVars, embedVars, areaVars, cadVars, rotVars, placeVars, formVars, tableVars, storeVars>>
exceptGrid == <<travVars, bearVars, dmsVars, scaleVars, exportVars, createVars, embedVars, areaVars, cadVars, rotVars, placeVars, formVars, tableVars, storeVars>>
exceptExport == <<travVars, bearVars, dmsVars, scaleVars, gridVars, createVars, embedVars, areaVars, cadVars, rotVars, placeVars, formVars, tableVars, storeVars>>
exceptCreate == <<travVars, bearVars, dmsVars, scaleVars, gridVars, exportVars, embedVars, areaVars, cadVars, rotVars, placeVars, formVars, tableVars, storeVars>>
exceptEmbed == <<travVars, bearVars, dmsVars, scaleVars, gridVars, exportVars, createVars, areaVars, cadVars, rotVars, placeVars, formVars, tableVars, storeVars>>
exceptArea == <<travVars, bearVars, dmsVars, scaleVars, gridVars, exportVars, createVars, embedVars, cadVars, rotVars, placeVars, formVars, tableVars, storeVars>>
exceptCad == <<travVars, bearVars, dmsVars, scaleVars, gridVars, exportVars, createVars, embedVars, areaVars, rotVars, placeVars, formVars, tableVars, storeVars>>
exceptRot == <<travVars, bearVars, dmsVars, scaleVars, gridVars, exportVars, createVars, embedVars, areaVars, cadVars, placeVars, formVars, tableVars, storeVars>>
exceptPlace == <<travVars, bearVars, dmsVars, scaleVars, gridVars, exportVars, createVars, embedVars, areaVars, cadVars, rotVars, formVars, tableVars, storeVars>>
exceptForm == <<travVars, bearVars, dmsVars, scaleVars, gridVars, exportVars, createVars, embedVars, areaVars, cadVars, rotVars, placeVars, tableVars, storeVars>>
exceptTable == <<travVars, bearVars, dmsVars, scaleVars, gridVars, exportVars, createVars, embedVars, areaVars, cadVars, rotVars, placeVars, formVars, storeVars>>
exceptStore == <<travVars, bearVars, dmsVars, scaleVars, gridVars, exportVars, createVars, embedVars, areaVars, cadVars, rotVars, placeVars, formVars, tableVars>>

----------------------------------------------------------------------------
(* Bounds of the model *)

\* grid cells per axis from which the vertices of the small rings are drawn
MaxCoord == 2
\* distinct vertices of a small ring (the closing vertex is added to them)
MaxVerts == 3
\* half the vertex count of the longest comb-shaped ring, minus one
MaxComb == 13
\* longest explicit station-name list
MaxStations == 3
\* longest scale text of the exhaustive part of the scale texts
MaxTextLen == 3

----------------------------------------------------------------------------
(* Arithmetic of the Python runtime *)

Abs(v) == IF v < 0 THEN -v ELSE v

\* round-half-to-even of v / q, q > 0
RoundDiv(v, q) ==
    LET base == v \div q
        r    == v % q
    IN  IF 2 * r < q THEN base
        ELSE IF 2 * r > q THEN base + 1
        ELSE IF base % 2 = 0 THEN base ELSE base + 1

\* round(v, 3) of a length in 1e-4 m: the result is in mm
Round3(v) == RoundDiv(v, 10)

RECURSIVE SqrtSearch(_, _, _)
SqrtSearch(s, lo, hi) ==
    IF lo >= hi THEN lo
    ELSE LET mid == (lo + hi + 1) \div 2
         IN  IF mid * mid <= s THEN SqrtSearch(s, mid, hi)
             ELSE SqrtSearch(s, lo, mid - 1)

\* floor of the square root, s < 2^31
ISqrt(s) == SqrtSearch(s, 0, 46340)

\* math.hypot(de, dn) rounded at q length units (q even): the multiple of q
\* nearest to the root
HypotRound(de, dn, q) ==
    LET s == de * de + dn * dn
        r == ISqrt(s)
    IN  IF r * r = s THEN RoundDiv(r, q) ELSE (r + q \div 2) \div q

\* angles in mas: 360 deg, 180 deg, 90 deg, 1 deg, 1 minute
FullTurn == 1296000000
HalfTurn == 648000000
QuarterTurn == HalfTurn \div 2
MasPerDeg == FullTurn \div 360
MasPerMin == MasPerDeg \div 60

RECURSIVE Gcd(_, _)
Gcd(a, b) == IF b = 0 THEN a ELSE Gcd(b, a % b)

\* arctangent of a/b for 0 < a < b in lowest terms, in mas
AtanTable(a, b) ==
    CASE a = 1 /\ b = 2 -> 95634184
      [] a = 1 /\ b = 3 -> 66365816
      [] a = 2 /\ b = 3 -> 121284243
      [] a = 1 /\ b = 4 -> 50530476
      [] a = 3 /\ b = 4 -> 132731632
      [] a = 1 /\ b = 5 -> 40715757
      [] a = 2 /\ b = 5 -> 78485074
      [] a = 3 /\ b = 5 -> 111469524
      [] a = 4 /\ b = 5 -> 139175310

\* arctangent of a/b for a >= 0, b > 0, in mas
AtanRatio(a, b) ==
    LET g == Gcd(a, b)
        p == a \div g
        q == b \div g
    IN  IF a = 0 THEN 0
        ELSE IF p = q THEN QuarterTurn \div 2
        ELSE IF p < q THEN AtanTable(p, q)
        ELSE QuarterTurn - AtanTable(q, p)

\* math.degrees(math.atan2(y, x)), in mas, in (-180 deg, 180 deg]
Atan2Deg(y, x) ==
    IF x = 0 THEN (IF y > 0 THEN QuarterTurn ELSE IF y < 0 THEN -QuarterTurn ELSE 0)
    ELSE IF x > 0 THEN (IF y >= 0 THEN AtanRatio(y, x) ELSE -AtanRatio(-y, x))
    ELSE IF y >= 0 THEN HalfTurn - AtanRatio(y, -x)
    ELSE AtanRatio(-y, -x) - HalfTurn

----------------------------------------------------------------------------
(* Bearing helpers *)

\* mutant: atan2 taken in the mathematical (north, east) order
bearing_deg_swapped(p1, p2) ==
    LET dx == p2.x - p1.x
        dy == p2.y - p1.y
    IN  (Atan2Deg(dy, dx) + FullTurn) % FullTurn

\* back_computation.bearing_deg
bearing_deg(p1, p2) ==
    LET dx == p2.x - p1.x
        dy == p2.y - p1.y
    IN  (Atan2Deg(dx, dy) + FullTurn) % FullTurn

\* map_renderer_layout.calculate_bearing_deg
calculate_bearing_deg(p1, p2) ==
    LET dx == p2.x - p1.x
        dy == p2.y - p1.y
    IN  (Atan2Deg(dx, dy) + FullTurn) % FullTurn

\* dwg_exporter.bearing_deg
dwg_bearing_deg(p1, p2) ==
    LET dx == p2.x - p1.x
        dy == p2.y - p1.y
    IN  (Atan2Deg(dx, dy) + FullTurn) % FullTurn

\* mutant: the seconds printed as whole seconds
deg_to_dms_whole(angle_deg) ==
    LET a         == angle_deg % FullTurn
        deg       == a \div MasPerDeg
        min_float == a - deg * MasPerDeg
        minute    == min_float \div MasPerMin
        sec       == min_float - minute * MasPerMin
    IN  [deg |-> deg, minute |-> minute, sec |-> RoundDiv(sec, 1000) * 100]

\* deg_to_dms: the three printed fields of the text, seconds in hundredths
deg_to_dms(angle_deg) ==
    LET a         == angle_deg % FullTurn
        deg       == a \div MasPerDeg
        min_float == a - deg * MasPerDeg
        minute    == min_float \div MasPerMin
        sec       == min_float - minute * MasPerMin
    IN  [deg |-> deg, minute |-> minute, sec |-> RoundDiv(sec, 10)]

\* the angle a DMS text denotes: degrees + minutes/60 + seconds/3600, in mas
dms_to_deg(t) == t.deg * MasPerDeg + t.minute * MasPerMin + t.sec * 10

----------------------------------------------------------------------------
(* Inputs of the traverse *)

\* a projected vertex on grid cell (gx, gy): cells of 1.0007 m from an origin
\* that is no multiple of a millimetre
Pt(gx, gy) == [x |-> 5000003 + gx * 10007, y |-> 7000001 + gy * 10007]

GridPoints == {Pt(gx, gy) : gx \in 0..MaxCoord, gy \in 0..MaxCoord}

\* list(poly.exterior.coords): shapely keeps every exterior ring closed
CloseRing(vs) == Append(vs, vs[1])

\* the empty polygon, or 3..MaxVerts grid vertices and the closing one
IsSmallRing(r) ==
    \/ r = <<>>
    \/ \E n \in 3..MaxVerts : \E vs \in [1..n -> GridPoints] : r = CloseRing(vs)

\* a ring of 2(m+1) vertices: east along the row gy = 0, back west along gy = 1
Comb(m) ==
    CloseRing([k \in 1..(2 * (m + 1)) |->
        IF k <= m + 1 THEN Pt(k - 1, 0) ELSE Pt(2 * (m + 1) - k, 1)])

CombRings == {Comb(m) : m \in 1..MaxComb}

None == [none |-> TRUE, list |-> <<>>]
StationPool == <<"S1", "S2", "S3", "S4", "S5", "S6">>
NameList(n) == [none |-> FALSE, list |-> SubSeq(StationPool, 1, n)]
StationChoices == {None} \cup {NameList(n) : n \in 0..MaxStations}

\* the rings and station lists of the traverse: every small ring with the
\* default labels, every comb ring with every station list
IsTraverseInput(r, names) ==
    \/ IsSmallRing(r) /\ names = None
    \/ r \in CombRings /\ names \in StationChoices

----------------------------------------------------------------------------
(* compute_back_computation and annotate_vertices *)

default_stations ==
    <<"A", "B", "C", "D", "E", "F", "G", "H", "I", "J", "K", "L", "M",
      "N", "O", "P", "Q", "R", "S", "T", "U", "V", "W", "X", "Y", "Z">>

\* `x if x else default`: None and the empty list are both falsy
Truthy(names) == ~names.none /\ Len(names.list) > 0

stations == IF Truthy(station_names) THEN station_names.list ELSE default_stations

\* element k (from 0) of a Python list
Item(list, k) == list[k + 1]
InRange(list, k) == k \in 0..(Len(list) - 1)

\* the indices of the two station lookups of row k
FromIndex(k, n) == k % n
\* mutant: the to-station looked up without wrapping
ToIndexNoWrap(k, n) == k + 1
ToIndex(k, n) == (k + 1) % n

\* the index of the station label of vertex k on the map
VertexLabelIndex(k, n) == IF k < n THEN k ELSE k % n

\* mutant: the rounded delta of the row is accumulated
AccumulateRounded(sum, d) == sum + Round3(d) * 10
\* sum_de += de
Accumulate(sum, d) == sum + d

\* mutant: the bearing mirrored instead of reversed
BackBearingMirrored(fb) == (FullTurn - fb) % FullTurn
\* bb = (fb + 180) % 360
BackBearing(fb) == (fb + HalfTurn) % FullTurn

\* the origin and the end of edge k (from 0) of the loop
EdgeFrom(cs, k) == Item(cs, k)
EdgeTo(cs, k) == Item(cs, k + 1)

\* mutant: the closing edge left out
EdgeCountShort(cs) == Len(cs) - 2
\* range(len(coords) - 1)
EdgeCount(cs) == IF Len(cs) = 0 THEN 0 ELSE Len(cs) - 1

TraverseRow(cs, st, k) ==
    LET p1 == EdgeFrom(cs, k)
        p2 == EdgeTo(cs, k)
        de == p2.x - p1.x
        dn == p2.y - p1.y
        fb == bearing_deg(p1, p2)
        bb == BackBearing(fb)
    IN  [from |-> Item(st, FromIndex(k, Len(st))),
         to |-> Item(st, ToIndex(k, Len(st))),
         E |-> Round3(p1.x), N |-> Round3(p1.y),
         dE |-> Round3(de), dN |-> Round3(dn),
         distance |-> HypotRound(de, dn, 10),
         fb |-> deg_to_dms(fb), bb |-> deg_to_dms(bb)]

\* the text rotation of an edge annotation
EdgeRotation(p1, p2) ==
    LET ang == Atan2Deg(p2.y - p1.y, p2.x - p1.x)
    IN  IF ang < -QuarterTurn \/ ang > QuarterTurn THEN ang + HalfTurn ELSE ang

VertexAnnotation(cs, st, k) ==
    LET p1 == EdgeFrom(cs, k)
        p2 == EdgeTo(cs, k)
    IN  [label |-> Item(st, VertexLabelIndex(k, Len(st))),
         at |-> p1,
         bearing |-> RoundDiv(calculate_bearing_deg(p1, p2), MasPerDeg \div 10),
         dist |-> HypotRound(p2.x - p1.x, p2.y - p1.y, 1000),
         rotation |-> EdgeRotation(p1, p2)]

\* the values of the variables of a part that is not running
IdleTraverse ==
    /\ op = "idle" /\ coords = <<>> /\ station_names = None /\ i = 0 /\ rows = <<>>
    /\ sum_de = 0 /\ sum_dn = 0 /\ labels_out = <<>> /\ pc = "idle" /\ ret = <<>>
IdleBearing ==
    bp1 = Pt(0, 0) /\ bp2 = Pt(0, 0) /\ bres = <<>>
IdleDms ==
    dangle = 0 /\ dtext = <<>> /\ dpc = "idle"
IdleScale ==
    /\ variant = "idle" /\ scale_text = <<>> /\ bounds = <<>> /\ window = <<>>
    /\ scale_ratio = 0 /\ xlim = <<>> /\ ylim = <<>> /\ rpc = "idle" /\ scalebar = <<>>
IdleGrid ==
    gspan = 0 /\ gres = <<>>
IdleExport ==
    /\ plots = {} /\ files = <<>> /\ reqs = <<>> /\ figs = <<>> /\ canvas = <<>>
    /\ nextfig = 0 /\ log = <<>>
IdleCreate ==
    /\ cin = <<>> /\ cpoly = <<>> /\ cstore = <<>> /\ cerr = "none" /\ crows = <<>>
    /\ cpc = "idle"
IdleEmbed ==
    /\ exporter = "idle" /\ png = <<>> /\ edoc = "absent" /\ eerr = "none"
    /\ epc = "idle"
IdleArea ==
    aplot = <<>> /\ aout = <<>>
IdleCad ==
    /\ cad_plot = <<>> /\ cad_rows = <<>> /\ cad_feat = <<>> /\ cad_doc = <<>>
    /\ cad_file = <<>> /\ cad_err = "none" /\ cad_pc = "idle"
IdleRotation ==
    rp1 = Pt(0, 0) /\ rp2 = Pt(0, 0) /\ rres = <<>>
IdlePlace ==
    img_width_px = 0 /\ img_height_px = 0 /\ image_box = <<>> /\ ipc = "idle"
IdleForm ==
    form = <<>> /\ route = "idle" /\ call = <<>> /\ sheet = <<>> /\ fpc = "idle"
IdleTable ==
    /\ t_rows = 0 /\ t_i = 0 /\ t_y = 0 /\ t_page = 0 /\ t_titled = {} /\ t_drawn = <<>>
    /\ tpc = "idle"
IdleStore ==
    /\ s_plots = {} /\ s_buffers = <<>> /\ s_features = {} /\ s_tx = <<>> /\ s_next = 0
    /\ s_seen = {}

IdleExceptTrav ==
    /\ IdleBearing
    /\ IdleDms
    /\ IdleScale
    /\ IdleGrid
    /\ IdleExport
    /\ IdleCreate
    /\ IdleEmbed
    /\ IdleArea
    /\ IdleCad
    /\ IdleRotation
    /\ IdlePlace
    /\ IdleForm
    /\ IdleTable
    /\ IdleStore
IdleExceptBear ==
    /\ IdleTraverse
    /\ IdleDms
    /\ IdleScale
    /\ IdleGrid
    /\ IdleExport
    /\ IdleCreate
    /\ IdleEmbed
    /\ IdleArea
    /\ IdleCad
    /\ IdleRotation
    /\ IdlePlace
    /\ IdleForm
    /\ IdleTable
    /\ IdleStore
IdleExceptDms ==
    /\ IdleTraverse
    /\ IdleBearing
    /\ IdleScale
    /\ IdleGrid
    /\ IdleExport
    /\ IdleCreate
    /\ IdleEmbed
    /\ IdleArea
    /\ IdleCad
    /\ IdleRotation
    /\ IdlePlace
    /\ IdleForm
    /\ IdleTable
    /\ IdleStore
IdleExceptScale ==
    /\ IdleTraverse
    /\ IdleBearing
    /\ IdleDms
    /\ IdleGrid
    /\ IdleExport
    /\ IdleCreate
    /\ IdleEmbed
    /\ IdleArea
    /\ IdleCad
    /\ IdleRotation
    /\ IdlePlace
    /\ IdleForm
    /\ IdleTable
    /\ IdleStore
IdleExceptGrid ==
    /\ IdleTraverse
    /\ IdleBearing
    /\ IdleDms
    /\ IdleScale
    /\ IdleExport
    /\ IdleCreate
    /\ IdleEmbed
    /\ IdleArea
    /\ IdleCad
    /\ IdleRotation
    /\ IdlePlace
    /\ IdleForm
    /\ IdleTable
    /\ IdleStore
IdleExceptExport ==
    /\ IdleTraverse
    /\ IdleBearing
    /\ IdleDms
    /\ IdleScale
    /\ IdleGrid
    /\ IdleCreate
    /\ IdleEmbed
    /\ IdleArea
    /\ IdleCad
    /\ IdleRotation
    /\ IdlePlace
    /\ IdleForm
    /\ IdleTable
    /\ IdleStore
IdleExceptCreate ==
    /\ IdleTraverse
    /\ IdleBearing
    /\ IdleDms
    /\ IdleScale
    /\ IdleGrid
    /\ IdleExport
    /\ IdleEmbed
    /\ IdleArea
    /\ IdleCad
    /\ IdleRotation
    /\ IdlePlace
    /\ IdleForm
    /\ IdleTable
    /\ IdleStore
IdleExceptEmbed ==
    /\ IdleTraverse
    /\ IdleBearing
    /\ IdleDms
    /\ IdleScale
    /\ IdleGrid
    /\ IdleExport
    /\ IdleCreate
    /\ IdleArea
    /\ IdleCad
    /\ IdleRotation
    /\ IdlePlace
    /\ IdleForm
    /\ IdleTable
    /\ IdleStore
IdleExceptArea ==
    /\ IdleTraverse
    /\ IdleBearing
    /\ IdleDms
    /\ IdleScale
    /\ IdleGrid
    /\ IdleExport
    /\ IdleCreate
    /\ IdleEmbed
    /\ IdleCad
    /\ IdleRotation
    /\ IdlePlace
    /\ IdleForm
    /\ IdleTable
    /\ IdleStore
IdleExceptCad ==
    /\ IdleTraverse
    /\ IdleBearing
    /\ IdleDms
    /\ IdleScale
    /\ IdleGrid
    /\ IdleExport
    /\ IdleCreate
    /\ IdleEmbed
    /\ IdleArea
    /\ IdleRotation
    /\ IdlePlace
    /\ IdleForm
    /\ IdleTable
    /\ IdleStore
IdleExceptRot ==
    /\ IdleTraverse
    /\ IdleBearing
    /\ IdleDms
    /\ IdleScale
    /\ IdleGrid
    /\ IdleExport
    /\ IdleCreate
    /\ IdleEmbed
    /\ IdleArea
    /\ IdleCad
    /\ IdlePlace
    /\ IdleForm
    /\ IdleTable
    /\ IdleStore
IdleExceptPlace ==
    /\ IdleTraverse
    /\ IdleBearing
    /\ IdleDms
    /\ IdleScale
    /\ IdleGrid
    /\ IdleExport
    /\ IdleCreate
    /\ IdleEmbed
    /\ IdleArea
    /\ IdleCad
    /\ IdleRotation
    /\ IdleForm
    /\ IdleTable
    /\ IdleStore
IdleExceptForm ==
    /\ IdleTraverse
    /\ IdleBearing
    /\ IdleDms
    /\ IdleScale
    /\ IdleGrid
    /\ IdleExport
    /\ IdleCreate
    /\ IdleEmbed
    /\ IdleArea
    /\ IdleCad
    /\ IdleRotation
    /\ IdlePlace
    /\ IdleTable
    /\ IdleStore
IdleExceptTable ==
    /\ IdleTraverse
    /\ IdleBearing
    /\ IdleDms
    /\ IdleScale
    /\ IdleGrid
    /\ IdleExport
    /\ IdleCreate
    /\ IdleEmbed
    /\ IdleArea
    /\ IdleCad
    /\ IdleRotation
    /\ IdlePlace
    /\ IdleForm
    /\ IdleStore
IdleExceptStore ==
    /\ IdleTraverse
    /\ IdleBearing
    /\ IdleDms
    /\ IdleScale
    /\ IdleGrid
    /\ IdleExport
    /\ IdleCreate
    /\ IdleEmbed
    /\ IdleArea
    /\ IdleCad
    /\ IdleRotation
    /\ IdlePlace
    /\ IdleForm
    /\ IdleTable

InitTraverse ==
    /\ IsTraverseInput(coords, station_names)
    /\ op \in {"compute_back_computation", "annotate_vertices"}
    /\ i = 0
    /\ rows = <<>>
    /\ sum_de = 0
    /\ sum_dn = 0
    /\ labels_out = <<>>
    /\ pc = "loop"
    /\ ret = <<>>
    /\ IdleExceptTrav

\* one pass of the loop of compute_back_computation
BackCompStep ==
    /\ op = "compute_back_computation"
    /\ pc = "loop"
    /\ i < EdgeCount(coords)
    /\ IF Len(stations) = 0
       THEN /\ pc' = "ZeroDivisionError"
            /\ UNCHANGED <<i, rows, sum_de, sum_dn>>
       ELSE IF ~InRange(stations, FromIndex(i, Len(stations)))
                 \/ ~InRange(stations, ToIndex(i, Len(stations)))
       THEN /\ pc' = "IndexError"
            /\ UNCHANGED <<i, rows, sum_de, sum_dn>>
       ELSE /\ rows' = Append(rows, TraverseRow(coords, stations, i))
            /\ sum_de' = Accumulate(sum_de, EdgeTo(coords, i).x - EdgeFrom(coords, i).x)
            /\ sum_dn' = Accumulate(sum_dn, EdgeTo(coords, i).y - EdgeFrom(coords, i).y)
            /\ i' = i + 1
            /\ pc' = pc
    /\ UNCHANGED <<op, coords, station_names, labels_out, ret, exceptTrav>>

\* return rows, round(sum_de, 3), round(sum_dn, 3)
BackCompReturn ==
    /\ op = "compute_back_computation"
    /\ pc = "loop"
    /\ i >= EdgeCount(coords)
    /\ ret' = [rows |-> rows, sum_de |-> Round3(sum_de), sum_dn |-> Round3(sum_dn)]
    /\ pc' = "done"
    /\ UNCHANGED <<op, coords, station_names, i, rows, sum_de, sum_dn, labels_out,
                   exceptTrav>>

\* one pass of the loop of annotate_vertices
AnnotateStep ==
    /\ op = "annotate_vertices"
    /\ pc = "loop"
    /\ i < EdgeCount(coords)
    /\ IF Len(stations) = 0
       THEN pc' = "ZeroDivisionError" /\ UNCHANGED <<i, labels_out>>
       ELSE IF ~InRange(stations, VertexLabelIndex(i, Len(stations)))
       THEN pc' = "IndexError" /\ UNCHANGED <<i, labels_out>>
       ELSE /\ labels_out' = Append(labels_out, VertexAnnotation(coords, stations, i))
            /\ i' = i + 1
            /\ pc' = pc
    /\ UNCHANGED <<op, coords, station_names, rows, sum_de, sum_dn, ret,
                   exceptTrav>>

\* the plot label, after the loop
AnnotateReturn ==
    /\ op = "annotate_vertices"
    /\ pc = "loop"
    /\ i >= EdgeCount(coords)
    /\ pc' = "done"
    /\ UNCHANGED <<op, coords, station_names, i, rows, sum_de, sum_dn, labels_out, ret,
                   exceptTrav>>

NextTraverse == BackCompStep \/ BackCompReturn \/ AnnotateStep \/ AnnotateReturn

SpecTraverse == InitTraverse /\ [][NextTraverse]_vars

----------------------------------------------------------------------------
(* Properties of the traverse *)

BackComp == op = "compute_back_computation"

\* C1: for every closed ring the running sums after processing edges
\* 0..i-1 equal vertex i minus vertex 0, and the returned closure sums of dE
\* and of dN are both zero.
C1_ClosureSumsZero ==
    BackComp =>
        /\ (pc \in {"loop", "done"} /\ i >= 1) =>
               /\ sum_de = coords[i + 1].x - coords[1].x
               /\ sum_dn = coords[i + 1].y - coords[1].y
        /\ pc = "done" =>
               /\ sum_de = 0 /\ sum_dn = 0
               /\ ret.sum_de = 0 /\ ret.sum_dn = 0

C1_Witness ==
    /\ BackComp /\ pc = "done"
    /\ Len(coords) = 4
    /\ \A k \in 1..3 : ret.rows[k].dE # 0 /\ ret.rows[k].dN # 0
    /\ ret.sum_de = 0 /\ ret.sum_dn = 0

\* the mm value d is a value of round(sqrt(s), 3), s in squared length units
IsRoundedRoot(d, s) ==
    /\ d >= 0
    /\ (d > 0 => (10 * d - 5) * (10 * d - 5) <= s)
    /\ s <= (10 * d + 5) * (10 * d + 5)

\* C2: a closed ring of N coordinate pairs yields exactly N-1 rows, and row k
\* carries the origin, the deltas and the distance of the edge from
\* coordinate k to coordinate k+1, in ring order.
C2_RowPerEdge ==
    (BackComp /\ pc = "done" /\ Len(coords) > 0) =>
        /\ Len(ret.rows) = Len(coords) - 1
        /\ \A k \in 1..Len(ret.rows) :
              LET r  == ret.rows[k]
                  de == coords[k + 1].x - coords[k].x
                  dn == coords[k + 1].y - coords[k].y
              IN  /\ r.E = Round3(coords[k].x)
                  /\ r.N = Round3(coords[k].y)
                  /\ r.dE = Round3(de)
                  /\ r.dN = Round3(dn)
                  /\ IsRoundedRoot(r.distance, de * de + dn * dn)

C2_Witness ==
    /\ BackComp /\ pc = "done"
    /\ Len(coords) = 4 /\ Len(ret.rows) = 3
    /\ ret.rows[1].dE > 0 /\ ret.rows[2].dE < 0 /\ ret.rows[3].dN < 0
    /\ ret.rows[2].distance > ret.rows[1].distance

\* C3: in every traverse row the back bearing is the forward bearing plus
\* 180 degrees modulo 360: both texts have a degrees field in 0..359, the
\* degrees differ by 180 modulo 360 and minutes and seconds are the same, for
\* every edge direction, zero-length edges included.
C3_BackBearingOpposite ==
    \A k \in 1..Len(rows) :
        LET r == rows[k]
        IN  /\ r.fb.deg \in 0..359
            /\ r.bb.deg \in 0..359
            /\ r.bb.deg = (r.fb.deg + 180) % 360
            /\ r.bb.minute = r.fb.minute
            /\ r.bb.sec = r.fb.sec
            /\ Abs(dms_to_deg(r.bb) - dms_to_deg(r.fb)) = HalfTurn

C3_Witness ==
    /\ BackComp /\ pc = "done" /\ Len(rows) = 3
    /\ rows[1].dE = 0 /\ rows[1].dN = 0 /\ rows[1].fb.deg = 0 /\ rows[1].bb.deg = 180
    /\ rows[2].fb.deg = 26 /\ rows[2].bb.deg = 206 /\ rows[2].bb.sec # 0
    /\ rows[3].fb.deg = 206 /\ rows[3].bb.deg = 26

\* the label list the claim names: the alphabet when no list or an empty
\* list is supplied, otherwise the supplied list
LabelList ==
    IF station_names.none \/ station_names.list = <<>>
    THEN <<"A", "B", "C", "D", "E", "F", "G", "H", "I", "J", "K", "L", "M",
           "N", "O", "P", "Q", "R", "S", "T", "U", "V", "W", "X", "Y", "Z">>
    ELSE station_names.list

\* C5: station labelling is total and cyclic: row i (from 0) goes from
\* S[i mod L] to S[(i+1) mod L], the map labels vertex i with S[i mod L], and
\* no lookup fails, for every vertex count and every label list.
C5_LabelsCyclic ==
    /\ pc \in {"loop", "done"}
    /\ Len(LabelList) >= 1
    /\ \A k \in 1..Len(rows) :
          /\ rows[k].from = LabelList[((k - 1) % Len(LabelList)) + 1]
          /\ rows[k].to = LabelList[(k % Len(LabelList)) + 1]
    /\ \A k \in 1..Len(labels_out) :
          labels_out[k].label = LabelList[((k - 1) % Len(LabelList)) + 1]
    /\ pc = "done" =>
          IF BackComp THEN Len(rows) = EdgeCount(coords)
          ELSE Len(labels_out) = EdgeCount(coords)

C5_Witness ==
    /\ BackComp /\ pc = "done"
    /\ station_names = None
    /\ Len(rows) = 28
    /\ rows[26].from = "Z" /\ rows[26].to = "A"
    /\ rows[27].from = "A" /\ rows[28].to = "C"

----------------------------------------------------------------------------
(* The three bearing functions applied to one edge *)

InitBearing ==
    /\ bp1 \in GridPoints
    /\ bp2 \in GridPoints
    /\ bres = <<>>
    /\ IdleExceptBear

\* back_computation.bearing_deg, used by the traverse
BearingTraverse ==
    /\ "traverse" \notin DOMAIN bres
    /\ bres' = bres @@ ("traverse" :> bearing_deg(bp1, bp2))
    /\ UNCHANGED <<bp1, bp2, exceptBear>>

\* map_renderer_layout.calculate_bearing_deg, used by the raster map
BearingMap ==
    /\ "map" \notin DOMAIN bres
    /\ bres' = bres @@ ("map" :> calculate_bearing_deg(bp1, bp2))
    /\ UNCHANGED <<bp1, bp2, exceptBear>>

\* dwg_exporter.bearing_deg, used by the CAD exporter
BearingCad ==
    /\ "cad" \notin DOMAIN bres
    /\ bres' = bres @@ ("cad" :> dwg_bearing_deg(bp1, bp2))
    /\ UNCHANGED <<bp1, bp2, exceptBear>>

NextBearing == BearingTraverse \/ BearingMap \/ BearingCad

SpecBearing == InitBearing /\ [][NextBearing]_vars

\* C4: the bearing is the azimuth clockwise from north in [0,360): north 0,
\* east 90, south 180, west 270, each open quadrant strictly between its two
\* axes, and the three bearing functions agree on every edge.
C4_AzimuthClockwise ==
    LET dx == bp2.x - bp1.x
        dy == bp2.y - bp1.y
    IN  /\ \A f \in DOMAIN bres :
              LET b == bres[f]
              IN  /\ 0 <= b /\ b < FullTurn
                  /\ (dx = 0 /\ dy > 0) => b = 0
                  /\ (dx > 0 /\ dy = 0) => b = 90 * MasPerDeg
                  /\ (dx = 0 /\ dy < 0) => b = 180 * MasPerDeg
                  /\ (dx < 0 /\ dy = 0) => b = 270 * MasPerDeg
                  /\ (dx > 0 /\ dy > 0) => (0 < b /\ b < 90 * MasPerDeg)
                  /\ (dx > 0 /\ dy < 0) => (90 * MasPerDeg < b /\ b < 180 * MasPerDeg)
                  /\ (dx < 0 /\ dy < 0) => (180 * MasPerDeg < b /\ b < 270 * MasPerDeg)
                  /\ (dx < 0 /\ dy > 0) => (270 * MasPerDeg < b /\ b < FullTurn)
        /\ \A f, g \in DOMAIN bres : bres[f] = bres[g]

C4_Witness ==
    /\ DOMAIN bres = {"traverse", "map", "cad"}
    /\ bp2.x > bp1.x /\ bp2.y - bp1.y = 2 * (bp2.x - bp1.x)
    /\ bres["traverse"] > 26 * MasPerDeg /\ bres["cad"] < 27 * MasPerDeg

----------------------------------------------------------------------------
(* deg_to_dms on one angle *)

\* whole degrees, minutes and thousandths of a second the angles are built of
DmsDegrees == {0, 1, 44, 45, 179, 180, 269, 359}
DmsMinutes == {0, 1, 30, 59}
DmsMilliSeconds ==
    {0, 1, 4, 5, 6, 14, 15, 16, 994, 995, 996, 12345, 30000, 59985, 59994, 59995, 59996, 59999}

\* bearings in [0, 360), and a few angles outside it
DmsAngles ==
    {d * MasPerDeg + m * MasPerMin + ms :
        d \in DmsDegrees, m \in DmsMinutes, ms \in DmsMilliSeconds}
    \cup {-1, -5, -MasPerMin, -HalfTurn, FullTurn, FullTurn + 5, FullTurn + HalfTurn - 1}

InitDms ==
    /\ dangle \in DmsAngles
    /\ dtext = <<>>
    /\ dpc = "start"
    /\ IdleExceptDms

DmsFormat ==
    /\ dpc = "start"
    /\ dtext' = deg_to_dms(dangle)
    /\ dpc' = "formatted"
    /\ UNCHANGED <<dangle, exceptDms>>

NextDms == DmsFormat

SpecDms == InitDms /\ [][NextDms]_vars

\* C6: for every bearing a in [0,360), the text of deg_to_dms(a) read back as
\* degrees + minutes/60 + seconds/3600 is within 0.01 arc-second of a.
C6_DmsRoundTrip ==
    (dpc = "formatted" /\ 0 <= dangle /\ dangle < FullTurn) =>
        Abs(dms_to_deg(dtext) - dangle) <= 10

C6_Witness ==
    /\ dpc = "formatted"
    /\ dangle = 44 * MasPerDeg + 59 * MasPerMin + 59996
    /\ dtext = [deg |-> 44, minute |-> 59, sec |-> 6000]
    /\ dms_to_deg(dtext) = 45 * MasPerDeg

----------------------------------------------------------------------------
(* Python strings: a text is the sequence of its characters *)

Digits == <<"0", "1", "2", "3", "4", "5", "6", "7", "8", "9">>
IsDigit(c) == \E d \in 1..10 : Digits[d] = c
DigitVal(c) == (CHOOSE d \in 1..10 : Digits[d] = c) - 1

\* characters str.strip() and int() take for white space ("TAB" is the tab)
IsSpace(c) == c \in {" ", "TAB"}

RECURSIVE LStrip(_)
LStrip(t) == IF t # <<>> /\ IsSpace(Head(t)) THEN LStrip(Tail(t)) ELSE t

RECURSIVE RStrip(_)
RStrip(t) ==
    IF t # <<>> /\ IsSpace(t[Len(t)]) THEN RStrip(SubSeq(t, 1, Len(t) - 1)) ELSE t

\* str.strip()
Strip(t) == RStrip(LStrip(t))

\* str.replace(" ", "")
RECURSIVE RemoveSpaces(_)
RemoveSpaces(t) ==
    IF t = <<>> THEN <<>>
    ELSE IF Head(t) = " " THEN RemoveSpaces(Tail(t))
    ELSE <<Head(t)>> \o RemoveSpaces(Tail(t))

\* ":" in s
HasColon(t) == \E k \in 1..Len(t) : t[k] = ":"

\* str.split(":")
RECURSIVE SplitColon(_)
SplitColon(t) ==
    IF ~HasColon(t) THEN <<t>>
    ELSE LET k == CHOOSE j \in 1..Len(t) : t[j] = ":" /\ \A h \in 1..(j - 1) : t[h] # ":"
         IN  <<SubSeq(t, 1, k - 1)>> \o SplitColon(SubSeq(t, k + 1, Len(t)))

RECURSIVE DigitsValue(_, _)
DigitsValue(t, acc) ==
    IF t = <<>> THEN acc
    ELSE IF Head(t) = "_" THEN DigitsValue(Tail(t), acc)
    ELSE DigitsValue(Tail(t), acc * 10 + DigitVal(Head(t)))

\* int(text): white space around, an optional sign, digits with single
\* underscores between them; err stands for ValueError
PyInt(t) ==
    LET u      == Strip(t)
        signed == u # <<>> /\ Head(u) \in {"+", "-"}
        body   == IF signed THEN Tail(u) ELSE u
        ok     == /\ body # <<>>
                  /\ \A k \in 1..Len(body) : IsDigit(body[k]) \/ body[k] = "_"
                  /\ IsDigit(body[1]) /\ IsDigit(body[Len(body)])
                  /\ \A k \in 1..(Len(body) - 1) : ~(body[k] = "_" /\ body[k + 1] = "_")
    IN  IF ~ok THEN [err |-> TRUE, val |-> 0]
        ELSE [err |-> FALSE,
              val |-> IF signed /\ Head(u) = "-" THEN -DigitsValue(body, 0)
                      ELSE DigitsValue(body, 0)]

Max(a, b) == IF a >= b THEN a ELSE b

\* try: ... except Exception: return 1000
ExceptDefault(r) == IF r.err THEN 1000 ELSE r.val

\* mutant: the part before the colon is converted
parse_scale_ratio_left(text) ==
    LET t == RemoveSpaces(Strip(text))
    IN  ExceptDefault(
          IF HasColon(t)
          THEN IF Len(SplitColon(t)) # 2 THEN [err |-> TRUE, val |-> 0]
               ELSE LET d == PyInt(SplitColon(t)[1])
                    IN  [err |-> d.err, val |-> Max(1, d.val)]
          ELSE LET d == PyInt(t) IN [err |-> d.err, val |-> Max(1, d.val)])

\* map_renderer_layout.parse_scale_ratio
parse_scale_ratio(text) ==
    LET t == RemoveSpaces(Strip(text))
    IN  ExceptDefault(
          IF HasColon(t)
          THEN IF Len(SplitColon(t)) # 2 THEN [err |-> TRUE, val |-> 0]
               ELSE LET d == PyInt(SplitColon(t)[2])
                    IN  [err |-> d.err, val |-> Max(1, d.val)]
          ELSE LET d == PyInt(t) IN [err |-> d.err, val |-> Max(1, d.val)])

\* orthophoto_renderer.parse_scale_ratio
ortho_parse_scale_ratio(text) ==
    LET t == RemoveSpaces(text)
    IN  ExceptDefault(IF HasColon(t) THEN PyInt(SplitColon(t)[2]) ELSE PyInt(t))

----------------------------------------------------------------------------
(* True-scale extent.  Ground lengths in units of 1.27e-6 m, page lengths in *)
(* units of 1e-4 inch: 0.0254 m per inch is 2 ground units per page unit.    *)

\* inch_to_m = 0.0254
inch_to_m == 2

\* figsize = (8.27, 11.69), in 1e-2 inch
fig_w_in == 827
fig_h_in == 1169
\* map_width, map_height = 0.80, 0.52 of the figure, in percent
map_width == 80
map_height == 52

\* the page window both renderers pass: fig_w_in * map_width, fig_h_in * map_height
MapWindow == [w |-> fig_w_in * map_width, h |-> fig_h_in * map_height]

\* mutant: the half extents taken as the whole ground size
apply_true_scale_whole(geom, ratio, map_w_in, map_h_in) ==
    LET cx == (geom.minx + geom.maxx) \div 2
        cy == (geom.miny + geom.maxy) \div 2
        real_w == map_w_in * inch_to_m * ratio
        real_h == map_h_in * inch_to_m * ratio
    IN  [xlim |-> <<cx - real_w, cx + real_w>>,
         ylim |-> <<cy - real_h, cy + real_h>>]

\* map_renderer_layout.apply_true_scale
apply_true_scale(geom, ratio, map_w_in, map_h_in) ==
    LET cx == (geom.minx + geom.maxx) \div 2
        cy == (geom.miny + geom.maxy) \div 2
        paper_w_m == map_w_in * inch_to_m
        paper_h_m == map_h_in * inch_to_m
        real_w == paper_w_m * ratio
        real_h == paper_h_m * ratio
    IN  [xlim |-> <<cx - real_w \div 2, cx + real_w \div 2>>,
         ylim |-> <<cy - real_h \div 2, cy + real_h \div 2>>]

\* orthophoto_renderer.apply_true_scale
ortho_apply_true_scale(geom, ratio, map_w_in, map_h_in) ==
    LET cx == (geom.minx + geom.maxx) \div 2
        cy == (geom.miny + geom.maxy) \div 2
        paper_w_m == map_w_in * inch_to_m
        paper_h_m == map_h_in * inch_to_m
        real_w == paper_w_m * ratio
        real_h == paper_h_m * ratio
    IN  [xlim |-> <<cx - real_w \div 2, cx + real_w \div 2>>,
         ylim |-> <<cy - real_h \div 2, cy + real_h \div 2>>]

\* the plot does not fit inside the window (x0, x1) x (y0, y1)
PlotClipped(geom, xl, yl) ==
    geom.minx < xl[1] \/ geom.maxx > xl[2] \/ geom.miny < yl[1] \/ geom.maxy > yl[2]

\* render_plot_map_layout: the extent after the fit check
FittedExtent(geom, xl, yl) ==
    IF PlotClipped(geom, xl, yl)
    THEN LET padx == (geom.maxx - geom.minx) \div 10
             pady == (geom.maxy - geom.miny) \div 10
         IN  [xlim |-> <<geom.minx - padx, geom.maxx + padx>>,
              ylim |-> <<geom.miny - pady, geom.maxy + pady>>]
    ELSE [xlim |-> xl, ylim |-> yl]

----------------------------------------------------------------------------
(* Inputs of a rendering *)

ScaleAlphabet == {"0", "1", "5", ":", " ", "-", "x"}

\* every text of at most MaxTextLen characters of the alphabet
IsShortText(t) == \E n \in 0..MaxTextLen : t \in [1..n -> ScaleAlphabet]

\* the decimal text of a positive integer
RECURSIVE Decimal(_)
Decimal(n) ==
    IF n < 10 THEN <<Digits[n + 1]>> ELSE Decimal(n \div 10) \o <<Digits[(n % 10) + 1]>>

ScaleDenominators == {1, 2, 10, 250, 500, 1000, 1250, 2000, 2500, 5000, 10000}

\* "R", "1:R" and "1 : R"
FormPlain(R) == Decimal(R)
FormColon(R) == <<"1", ":">> \o Decimal(R)
FormSpaced(R) == <<"1", " ", ":", " ">> \o Decimal(R)

FormTexts == UNION {{FormPlain(R), FormColon(R), FormSpaced(R)} : R \in ScaleDenominators}

\* texts that hold no integer denominator
GarbageTexts ==
    { <<"g", "a", "r", "b", "a", "g", "e">>, <<>>, <<" ">>, <<"1", ":">>, <<":">>,
      <<"1", ":", "x">>, <<"1", ".", "5">>, <<"1", ":", "1", "e", "3">>,
      <<"1", ":", "5", "0", "0", "m">>, <<"1", "/", "5", "0", "0">>,
      <<"1", ":", "-">>, <<"1", ":", "5", "_">>, <<"N", "o", "n", "e">> }

\* other texts Python accepts, and texts with two colons
OtherTexts ==
    { <<"+", "5", "0", "0">>, <<"1", ":", "1", "_", "0", "0", "0">>,
      <<"TAB", "1", ":", "2", "5", "0", "TAB">>, <<"1", ":", "0", "5", "0">>,
      <<"1", ":", "2", ":", "3">>, <<"1", ":", "0", ":", "3">>, <<"1", ":", ":">>,
      <<"1", ":", "-", "5", "0", "0">>, <<"-", "2", "5", "0">>, <<"1", ":", "0">> }

IsScaleText(t) == IsShortText(t) \/ t \in FormTexts \cup GarbageTexts \cup OtherTexts

\* plot bounds in ground units: 2.54 m or 254 m a side, at two places
PlotSizes == {2000000, 200000000}
PlotOrigins == {0, 40000000}
PlotBounds ==
    {[minx |-> o, miny |-> o \div 2, maxx |-> o + sw, maxy |-> o \div 2 + sh] :
        o \in PlotOrigins, sw \in PlotSizes, sh \in PlotSizes}

InitScale ==
    /\ variant \in {"layout", "orthophoto"}
    /\ IsScaleText(scale_text)
    /\ bounds \in PlotBounds
    /\ window = MapWindow
    /\ scale_ratio = 0
    /\ xlim = <<>>
    /\ ylim = <<>>
    /\ rpc = "start"
    /\ scalebar = <<>>
    /\ IdleExceptScale

\* scale_ratio = parse_scale_ratio(scale_text)
ParseScale ==
    /\ rpc = "start"
    /\ scale_ratio' = IF variant = "layout" THEN parse_scale_ratio(scale_text)
                      ELSE ortho_parse_scale_ratio(scale_text)
    /\ rpc' = "parsed"
    /\ UNCHANGED <<variant, scale_text, bounds, window, xlim, ylim,
                   scalebar, exceptScale>>

\* apply_true_scale(ax, poly, scale_ratio, map_w_in, map_h_in)
ApplyTrueScale ==
    /\ rpc = "parsed"
    /\ LET e == IF variant = "layout"
                THEN apply_true_scale(bounds, scale_ratio, window.w, window.h)
                ELSE ortho_apply_true_scale(bounds, scale_ratio, window.w, window.h)
       IN  xlim' = e.xlim /\ ylim' = e.ylim
    /\ rpc' = "scaled"
    /\ UNCHANGED <<variant, scale_text, bounds, window, scale_ratio,
                   scalebar, exceptScale>>

\* render_plot_map_layout: the fit check, after which the extent is final
LayoutFitExtent ==
    /\ variant = "layout"
    /\ rpc = "scaled"
    /\ LET e == FittedExtent(bounds, xlim, ylim)
       IN  xlim' = e.xlim /\ ylim' = e.ylim
    /\ rpc' = "final"
    /\ UNCHANGED <<variant, scale_text, bounds, window, scale_ratio,
                   scalebar, exceptScale>>

\* render_orthophoto_png: nothing after apply_true_scale sets the extent
OrthoKeepExtent ==
    /\ variant = "orthophoto"
    /\ rpc = "scaled"
    /\ rpc' = "final"
    /\ UNCHANGED <<variant, scale_text, bounds, window, scale_ratio, xlim, ylim,
                   scalebar, exceptScale>>

NextScale == ParseScale \/ ApplyTrueScale \/ LayoutFitExtent \/ OrthoKeepExtent

SpecScale == InitScale /\ [][NextScale]_vars

\* apply_true_scale called on its own, with any ratio >= 1 and any page window
PageWindows ==
    {MapWindow, [w |-> fig_h_in * map_width, h |-> fig_w_in * map_height],
     [w |-> 10000, h |-> 10000], [w |-> 85000, h |-> 110001]}

TrueScaleRatios == {1, 3, 250, 500, 1000, 2500, 5000}

InitTrueScale ==
    /\ variant \in {"layout", "orthophoto"}
    /\ scale_text = <<>>
    /\ bounds \in PlotBounds
    /\ window \in PageWindows
    /\ scale_ratio \in TrueScaleRatios
    /\ xlim = <<>>
    /\ ylim = <<>>
    /\ rpc = "parsed"
    /\ scalebar = <<>>
    /\ IdleExceptScale

NextTrueScale == ApplyTrueScale

SpecTrueScale == InitTrueScale /\ [][NextTrueScale]_vars

----------------------------------------------------------------------------
(* Properties of the scale planner *)

\* an optional sign followed by one or more digits
IsIntegerLiteral(t) ==
    LET body == IF t # <<>> /\ Head(t) \in {"+", "-"} THEN Tail(t) ELSE t
    IN  body # <<>> /\ \A k \in 1..Len(body) : IsDigit(body[k])

ColonCount(t) == Cardinality({k \in 1..Len(t) : t[k] = ":"})

\* a text with at most one colon whose denominator part, spaces aside, is
\* no integer
NoDenominator(text) ==
    LET t == SelectSeq(text, LAMBDA c : c # " ")
        k == CHOOSE j \in 1..Len(t) : t[j] = ":"
    IN  /\ ColonCount(t) <= 1
        /\ IF ColonCount(t) = 1 THEN ~IsIntegerLiteral(SubSeq(t, k + 1, Len(t)))
           ELSE ~IsIntegerLiteral(t)

C8_RatioPositive ==
    /\ rpc \in {"parsed", "scaled", "final"} => scale_ratio >= 1
    /\ rpc \in {"scaled", "final"} => (xlim[2] > xlim[1] /\ ylim[2] > ylim[1])

\* the part of C8 that the plain layout variant meets
LayoutRatioPositive ==
    variant = "layout" => C8_RatioPositive

\* C9: after apply_true_scale the extent is page width x 0.0254 x ratio wide
\* and page height x 0.0254 x ratio high, centred on the geometry's bounds,
\* for every geometry, ratio >= 1 and page window, in both variants.
C9_TrueScaleExtent ==
    rpc = "scaled" =>
        /\ xlim[2] - xlim[1] = window.w * inch_to_m * scale_ratio
        /\ ylim[2] - ylim[1] = window.h * inch_to_m * scale_ratio
        /\ xlim[1] + xlim[2] = bounds.minx + bounds.maxx
        /\ ylim[1] + ylim[2] = bounds.miny + bounds.maxy

C9_Witness ==
    /\ rpc = "scaled"
    /\ variant = "orthophoto"
    /\ window = [w |-> 85000, h |-> 110001]
    /\ scale_ratio = 2500
    /\ xlim[2] - xlim[1] = 425000000
    /\ ylim[2] - ylim[1] = 550005000

\* C10: in every raster rendering the final view extent contains the plot's
\* bounding box (stated for ratios >= 1, where the window has a size).
C10_ExtentContainsPlot ==
    (rpc = "final" /\ scale_ratio >= 1) =>
        /\ xlim[1] <= bounds.minx /\ bounds.maxx <= xlim[2]
        /\ ylim[1] <= bounds.miny /\ bounds.maxy <= ylim[2]

\* the part of C10 that the plain layout variant meets: the extent is the
\* true-scale window when the plot fits it, else the bounds widened by 10%
LayoutExtentContainsPlot ==
    (variant = "layout" /\ rpc = "final") =>
        /\ C10_ExtentContainsPlot
        /\ LET ts == apply_true_scale(bounds, scale_ratio, window.w, window.h)
               dx == bounds.maxx - bounds.minx
               dy == bounds.maxy - bounds.miny
           IN  \/ xlim = ts.xlim /\ ylim = ts.ylim
               \/ /\ 10 * (bounds.minx - xlim[1]) = dx /\ 10 * (xlim[2] - bounds.maxx) = dx
                  /\ 10 * (bounds.miny - ylim[1]) = dy /\ 10 * (ylim[2] - bounds.maxy) = dy

----------------------------------------------------------------------------
(* nice_grid_step: spans and spacings in mm *)

\* decades of the spans: a span is a three-digit mantissa times 10^d mm
MaxDecade == 4

RECURSIVE Pow10(_)
Pow10(d) == IF d = 0 THEN 1 ELSE 10 * Pow10(d - 1)

\* 10 ** math.floor(math.log10(span)), span > 0
RECURSIVE Pow10Floor(_)
Pow10Floor(span) == IF span < 10 THEN 1 ELSE 10 * Pow10Floor(span \div 10)

\* the multipliers 0.02, 0.05, 0.1, 0.2, 0.5, 1.0 in hundredths
GridMultipliers == <<2, 5, 10, 20, 50, 100>>

\* base * m for each multiplier
GridSteps(span) == [k \in 1..Len(GridMultipliers) |-> (Pow10Floor(span) * GridMultipliers[k]) \div 100]

\* the return value for span <= 0: 100.0 m
DefaultGridStep == 100 * 1000

\* dwg_exporter.nice_grid_step: the first candidate with span / step <= 10
dwg_nice_grid_step(span) ==
    IF span <= 0 THEN DefaultGridStep
    ELSE LET steps == GridSteps(span)
             fits  == {k \in DOMAIN steps : span <= 10 * steps[k]}
         IN  IF fits = {} THEN Pow10Floor(span)
             ELSE steps[CHOOSE k \in fits : \A j \in fits : k <= j]

\* np.argmin(np.abs(steps - span / 6)): the first index of the least distance.
\* At span = 2.1 * 10^n the two nearest candidates are equally far in exact
\* arithmetic and the rounding of the floating-point subtraction decides;
\* the model takes the first, as argmin does on equal distances.
ArgMinDistance(steps, span) ==
    CHOOSE k \in DOMAIN steps :
        /\ \A j \in DOMAIN steps : Abs(6 * steps[k] - span) <= Abs(6 * steps[j] - span)
        /\ \A j \in 1..(k - 1) : Abs(6 * steps[j] - span) > Abs(6 * steps[k] - span)

\* map_renderer_layout.nice_grid_step: the candidate closest to span / 6
nice_grid_step(span) ==
    IF span <= 0 THEN DefaultGridStep
    ELSE GridSteps(span)[ArgMinDistance(GridSteps(span), span)]

\* orthophoto_renderer.nice_grid_step: the same choice
ortho_nice_grid_step(span) ==
    IF span <= 0 THEN DefaultGridStep
    ELSE GridSteps(span)[ArgMinDistance(GridSteps(span), span)]

\* spans of 0.1 m up to just under 10^(MaxDecade - 1) m, and two spans <= 0
GridSpans ==
    {m * Pow10(d) : m \in 100..999, d \in 0..MaxDecade} \cup {0, -1000}

InitGrid ==
    /\ gspan \in GridSpans
    /\ gres = <<>>
    /\ IdleExceptGrid

\* major = nice_grid_step(span) of export_survey_plan_to_dxf
GridStepCad ==
    /\ "cad" \notin DOMAIN gres
    /\ gres' = gres @@ ("cad" :> dwg_nice_grid_step(gspan))
    /\ UNCHANGED <<gspan, exceptGrid>>

\* major = nice_grid_step(span) of render_plot_map_layout
GridStepLayout ==
    /\ "layout" \notin DOMAIN gres
    /\ gres' = gres @@ ("layout" :> nice_grid_step(gspan))
    /\ UNCHANGED <<gspan, exceptGrid>>

\* major = nice_grid_step(span) of render_orthophoto_png
GridStepOrtho ==
    /\ "orthophoto" \notin DOMAIN gres
    /\ gres' = gres @@ ("orthophoto" :> ortho_nice_grid_step(gspan))
    /\ UNCHANGED <<gspan, exceptGrid>>

NextGrid == GridStepCad \/ GridStepLayout \/ GridStepOrtho

SpecGrid == InitGrid /\ [][NextGrid]_vars

\* s is one of the six candidates of the span
IsGridCandidate(span, s) == \E k \in 1..Len(GridMultipliers) : s = GridSteps(span)[k]

\* the number of grid intervals span / s is between 4 and 10
KeepsFourToTen(span, s) == 4 * s <= span /\ span <= 10 * s

\* C11: for every positive span each of the three nice_grid_step
\* implementations returns one of the six candidate spacings, the number of
\* grid intervals span / s is between 4 and 10, and for a span of 1000 m the
\* spacing is between 100 m and 250 m.
C11_GridIntervals ==
    \A f \in DOMAIN gres :
        gspan > 0 =>
            /\ IsGridCandidate(gspan, gres[f])
            /\ KeepsFourToTen(gspan, gres[f])
            /\ gspan = 1000 * 1000 => (100 * 1000 <= gres[f] /\ gres[f] <= 250 * 1000)

\* the part of C11 the CAD exporter meets
CadGridIntervals ==
    ("cad" \in DOMAIN gres /\ gspan > 0) =>
        /\ IsGridCandidate(gspan, gres["cad"])
        /\ KeepsFourToTen(gspan, gres["cad"])

\* the part of C11 the two raster variants meet: a candidate, at least 4
\* intervals and at most 10.5, and the same spacing in both
RasterGridIntervals ==
    \A f \in DOMAIN gres \ {"cad"} :
        gspan > 0 =>
            /\ IsGridCandidate(gspan, gres[f])
            /\ 4 * gres[f] <= gspan /\ 2 * gspan <= 21 * gres[f]
            /\ \A g \in DOMAIN gres \ {"cad"} : gres[g] = gres[f]
            /\ gspan = 1000 * 1000 => gres[f] = 200 * 1000

----------------------------------------------------------------------------
(* The scale bar of a raster rendering: ground lengths in micrometres *)

\* micrometres per metre
MicronsPerMetre == 1000 * 1000

\* map_renderer_layout.choose_scalebar_length
choose_scalebar_length(ratio) ==
    IF ratio <= 500 THEN 50
    ELSE IF ratio <= 1000 THEN 100
    ELSE IF ratio <= 2000 THEN 200
    ELSE 500

\* orthophoto_renderer.choose_scalebar_length
ortho_choose_scalebar_length(ratio) ==
    IF ratio <= 500 THEN 50
    ELSE IF ratio <= 1000 THEN 100
    ELSE IF ratio <= 2000 THEN 200
    ELSE 500

\* segments: int = 4
segments == 4

\* "black" if i % 2 == 0 else "white", i from 0
SegmentFace(k) == IF k % 2 = 0 THEN "black" ELSE "white"

\* map_renderer_layout.add_scalebar: the bar is drawn in data coordinates,
\* seg_len = length_m / segments metres a segment, the outline length_m metres;
\* the tick labels are int(round(i * seg_len))
add_scalebar(xl, length_m, nseg) ==
    LET seg_len == (length_m * MicronsPerMetre) \div nseg
    IN  [ segs    |-> [k \in 1..nseg |->
                          [left |-> (k - 1) * seg_len, width |-> seg_len,
                           face |-> SegmentFace(k - 1)]],
          outline |-> length_m * MicronsPerMetre,
          labels  |-> <<0>> \o [k \in 1..nseg |-> RoundDiv(k * length_m, nseg)] ]

\* a length of u ground units of 1.27e-6 m times num / den, in micrometres
UnitsToMicrons(u, num, den) ==
    (u \div (100 * den)) * (127 * num) + ((u % (100 * den)) * (127 * num)) \div (100 * den)

\* orthophoto_renderer.add_scalebar: the bar is drawn in axes fractions, 0.25 of
\* the axes width in all and seg = 0.25 / segments a segment, so its ground
\* length is that fraction of the view width; the tick labels are
\* int(length_m * i / segments)
ortho_add_scalebar(xl, length_m, nseg) ==
    LET view == xl[2] - xl[1]
        seg  == UnitsToMicrons(view, 1, 4 * nseg)
    IN  [ segs    |-> [k \in 1..nseg |->
                          [left |-> (k - 1) * seg, width |-> seg,
                           face |-> SegmentFace(k - 1)]],
          outline |-> UnitsToMicrons(view, 1, 4),
          labels  |-> <<0>> \o [k \in 1..nseg |-> (length_m * k) \div nseg] ]

\* add_scalebar(ax, choose_scalebar_length(scale_ratio), segments=4)
AddScalebar ==
    /\ rpc = "final"
    /\ scalebar' = IF variant = "layout"
                   THEN add_scalebar(xlim, choose_scalebar_length(scale_ratio), segments)
                   ELSE ortho_add_scalebar(xlim, ortho_choose_scalebar_length(scale_ratio),
                                           segments)
    /\ rpc' = "drawn"
    /\ UNCHANGED <<variant, scale_text, bounds, window, scale_ratio, xlim, ylim, exceptScale>>

\* a rendering from the scale text to the scale bar, for the accepted forms of
\* the scale text
InitScalebar ==
    /\ variant \in {"layout", "orthophoto"}
    /\ scale_text \in FormTexts
    /\ bounds \in PlotBounds
    /\ window = MapWindow
    /\ scale_ratio = 0
    /\ xlim = <<>>
    /\ ylim = <<>>
    /\ rpc = "start"
    /\ scalebar = <<>>
    /\ IdleExceptScale

NextScalebar ==
    ParseScale \/ ApplyTrueScale \/ LayoutFitExtent \/ OrthoKeepExtent \/ AddScalebar

SpecScalebar == InitScalebar /\ [][NextScalebar]_vars

\* the lookup table of the scale bar
ScalebarLookup(ratio) ==
    CASE ratio <= 500 -> 50
      [] ratio > 500 /\ ratio <= 1000 -> 100
      [] ratio > 1000 /\ ratio <= 2000 -> 200
      [] OTHER -> 500

\* equal, adjoining segments that alternate filled / unfilled from filled
SegmentsAlternate(bar) ==
    /\ Len(bar.segs) >= 1
    /\ \A k \in 1..Len(bar.segs) :
          /\ bar.segs[k].width = bar.segs[1].width
          /\ bar.segs[k].left = (k - 1) * bar.segs[1].width
          /\ bar.segs[k].face = (IF k % 2 = 1 THEN "black" ELSE "white")

\* the bar spans m ground metres, to the millimetre
SpansMetres(bar, m) ==
    /\ Abs(bar.outline - m * MicronsPerMetre) <= 1000
    /\ Abs(Len(bar.segs) * bar.segs[1].width - m * MicronsPerMetre) <= 1000

\* C12: in every raster variant the scale bar spans the lookup value of the
\* scale ratio in ground metres of the view extent, is divided into equal
\* segments alternating filled / unfilled from filled, and its last tick label
\* shows the lookup value.
C12_ScaleBarLength ==
    rpc = "drawn" =>
        /\ SpansMetres(scalebar, ScalebarLookup(scale_ratio))
        /\ SegmentsAlternate(scalebar)
        /\ scalebar.labels[Len(scalebar.labels)] = ScalebarLookup(scale_ratio)

\* the part of C12 both variants meet (segments and labels), the ground
\* length of the plain layout's bar, and the ground length of the imagery
\* variant's bar: a quarter of the view width whatever the label says
ScaleBarParts ==
    rpc = "drawn" =>
        /\ SegmentsAlternate(scalebar)
        /\ scalebar.labels[1] = 0
        /\ scalebar.labels[Len(scalebar.labels)] = ScalebarLookup(scale_ratio)
        /\ variant = "layout" => SpansMetres(scalebar, ScalebarLookup(scale_ratio))
        /\ variant = "orthophoto" =>
              /\ Abs(4 * scalebar.outline - UnitsToMicrons(xlim[2] - xlim[1], 1, 1)) <= 4
              /\ ~SpansMetres(scalebar, ScalebarLookup(scale_ratio))

----------------------------------------------------------------------------
(* The export routes of routers/plots.py, called concurrently *)

\* plot ids the requests name: 1..MaxPlotId
MaxPlotId == 2

PlotIds == 1..MaxPlotId

\* the requests in flight: sync routes run on the worker threads of the server
Requests == {1, 2}

\* the routes that export an artifact
ExportKinds ==
    {"preview", "report_pdf", "back_computation_pdf",
     "orthophoto_preview", "orthophoto_pdf", "survey_plan_dwg"}

\* routes that call render_plot_map_layout / render_orthophoto_png
LayoutKinds == {"preview", "report_pdf"}
OrthoKinds == {"orthophoto_preview", "orthophoto_pdf"}

\* the preview written to the path of the report's map: a faulty variant
preview_map_path_shared(plot_id) == <<"app/reports/maps", "plot_", plot_id, "_map.png">>

\* f"{dir}/plot_{plot_id}{suffix}": the directory, the prefix, the id, the suffix
preview_map_path(plot_id) == <<"app/reports/previews", "plot_", plot_id, "_preview.png">>
report_map_path(plot_id) == <<"app/reports/maps", "plot_", plot_id, "_map.png">>
report_pdf_path(plot_id) == <<"app/reports", "plot_", plot_id, "_report.pdf">>
back_computation_pdf_path(plot_id) ==
    <<"app/reports", "plot_", plot_id, "_back_computation.pdf">>
orthophoto_preview_path(plot_id) ==
    <<"app/reports/orthophoto", "plot_", plot_id, "_orthophoto_preview.png">>
orthophoto_png_path(plot_id) == <<"app/reports/orthophoto", "plot_", plot_id, "_orthophoto.png">>
orthophoto_pdf_path(plot_id) == <<"app/reports/orthophoto", "plot_", plot_id, "_orthophoto.pdf">>
dxf_path(plot_id) == <<"app/reports/dwg", "plot_", plot_id, "_survey_plan.dxf">>

\* the raster a route renders
RasterPath(kind, plot_id) ==
    CASE kind = "preview" -> preview_map_path(plot_id)
      [] kind = "report_pdf" -> report_map_path(plot_id)
      [] kind = "orthophoto_preview" -> orthophoto_preview_path(plot_id)
      [] kind = "orthophoto_pdf" -> orthophoto_png_path(plot_id)

\* the document a route writes
DocPath(kind, plot_id) ==
    CASE kind = "report_pdf" -> report_pdf_path(plot_id)
      [] kind = "back_computation_pdf" -> back_computation_pdf_path(plot_id)
      [] kind = "orthophoto_pdf" -> orthophoto_pdf_path(plot_id)
      [] kind = "survey_plan_dwg" -> dxf_path(plot_id)

\* the file a route returns in its FileResponse
ResponsePath(kind, plot_id) ==
    IF kind \in {"preview", "orthophoto_preview"}
    THEN RasterPath(kind, plot_id) ELSE DocPath(kind, plot_id)

\* every file a route writes
OutputPaths(kind, plot_id) ==
    (IF kind \in LayoutKinds \cup OrthoKinds THEN {RasterPath(kind, plot_id)} ELSE {})
    \cup (IF kind \in {"preview", "orthophoto_preview"} THEN {} ELSE {DocPath(kind, plot_id)})

\* what a call draws on its figure or writes into its document
Mark(r, what) == [by |-> r, what |-> what]

\* the page elements render_plot_map_layout draws
LayoutElements ==
    {"sheet frame", "title block", "footer", "key box", "buildings", "plot boundary",
     "grid", "coordinate frame", "vertices", "north arrow", "scale bar"}

\* the page elements render_orthophoto_png draws after the basemap
OrthoElements ==
    {"grid", "coordinate frame", "plot boundary", "sheet frame", "title block", "footer",
     "north arrow", "scale bar"}

Drawing(r, kind) ==
    {Mark(r, e) : e \in (IF kind \in LayoutKinds THEN LayoutElements ELSE OrthoElements)}

\* the exception a route ends with when the plot row is missing:
\* render_plot_map_layout, render_orthophoto_png and export_survey_plan_to_dxf
\* raise ValueError("... not found"); download_back_computation_pdf passes the
\* None on to wkb.loads, which raises TypeError or returns None so that
\* compute_back_computation raises AttributeError on poly.exterior
MissingPlotErrors(kind) ==
    IF kind = "back_computation_pdf" THEN {"TypeError", "AttributeError"}
    ELSE {"ValueError: Plot not found"}

\* the step after the plot row was found
AfterQuery(kind) == IF kind \in LayoutKinds \cup OrthoKinds THEN "figure" ELSE "build"

InitExport ==
    /\ plots \in {{1}, PlotIds}
    /\ files = <<>>
    /\ reqs \in [Requests -> [kind : ExportKinds, plot : PlotIds, pc : {"query"}, fig : {0},
                              err : {"none"}, fetch : {"none"}, saved : {{}}, ret : {<<>>}]]
    /\ figs = <<>>
    /\ canvas = <<>>
    /\ nextfig = 1
    /\ log = <<>>
    /\ IdleExceptExport

\* the SELECT of the plot row and the check of its result
Query(r) ==
    /\ reqs[r].pc = "query"
    /\ IF reqs[r].plot \in plots
       THEN reqs' = [reqs EXCEPT ![r].pc = AfterQuery(reqs[r].kind)]
       ELSE \E e \in MissingPlotErrors(reqs[r].kind) :
                reqs' = [reqs EXCEPT ![r].pc = "failed", ![r].err = e]
    /\ UNCHANGED <<plots, files, figs, canvas, nextfig, log, exceptExport>>

\* fig = plt.figure(...): a new figure, which becomes pyplot's current figure
Figure(r) ==
    /\ reqs[r].pc = "figure"
    /\ figs' = Append(figs, nextfig)
    /\ canvas' = (nextfig :> {}) @@ canvas
    /\ nextfig' = nextfig + 1
    /\ reqs' = [reqs EXCEPT ![r].fig = nextfig,
                            ![r].pc = IF reqs[r].kind \in OrthoKinds THEN "basemap" ELSE "draw"]
    /\ UNCHANGED <<plots, files, log, exceptExport>>

\* try: ctx.add_basemap(ax, ...) except Exception: pass
Basemap(r) ==
    /\ reqs[r].pc = "basemap"
    /\ \E fetched \in BOOLEAN :
          IF fetched
          THEN /\ canvas' = [canvas EXCEPT ![reqs[r].fig] = @ \cup {Mark(r, "imagery")}]
               /\ reqs' = [reqs EXCEPT ![r].fetch = "ok", ![r].pc = "draw"]
          ELSE /\ canvas' = canvas
               /\ reqs' = [reqs EXCEPT ![r].fetch = "failed", ![r].pc = "draw"]
    /\ UNCHANGED <<plots, files, figs, nextfig, log, exceptExport>>

\* the drawing calls, each on the fig / ax of this call
Draw(r) ==
    /\ reqs[r].pc = "draw"
    /\ canvas' = [canvas EXCEPT ![reqs[r].fig] = @ \cup Drawing(r, reqs[r].kind)]
    /\ reqs' = [reqs EXCEPT ![r].pc = "savefig"]
    /\ UNCHANGED <<plots, files, figs, nextfig, log, exceptExport>>

\* a file opened for writing at its final path: truncated, not yet complete
Opened(r, content) == [writer |-> r, content |-> content, complete |-> FALSE]

\* render_plot_map_layout: plt.savefig(output_path, ...) saves pyplot's current
\* figure, the last one made and not yet closed in the process, or a new blank
\* one when there is none.  render_orthophoto_png: fig.savefig(output_path, ...)
SaveFig(r) ==
    /\ reqs[r].pc = "savefig"
    /\ LET path == RasterPath(reqs[r].kind, reqs[r].plot)
           figure == IF reqs[r].kind \in OrthoKinds THEN reqs[r].fig
                     ELSE IF figs # <<>> THEN figs[Len(figs)]
                     ELSE nextfig
           rendered == IF figure = nextfig THEN {} ELSE canvas[figure]
       IN  /\ files' = (path :> Opened(r, rendered)) @@ files
           /\ reqs' = [reqs EXCEPT ![r].saved = rendered, ![r].pc = "flush_png"]
           /\ IF figure = nextfig
              THEN /\ figs' = <<nextfig>>
                   /\ canvas' = (nextfig :> {}) @@ canvas
                   /\ nextfig' = nextfig + 1
              ELSE UNCHANGED <<figs, canvas, nextfig>>
    /\ UNCHANGED <<plots, log, exceptExport>>

\* savefig raises (the file cannot be opened or written: OSError): the
\* exception leaves the renderer, which has no try/finally around plt.close
SaveFigFails(r) ==
    /\ reqs[r].pc = "savefig"
    /\ reqs' = [reqs EXCEPT ![r].pc = "failed", ![r].err = "OSError: savefig"]
    /\ UNCHANGED <<plots, files, figs, canvas, nextfig, log, exceptExport>>

\* the rest of a write: the file is complete, unless another call opened the
\* same path meanwhile, in which case the end of this call's bytes lands in it
Flush(r) ==
    /\ reqs[r].pc \in {"flush_png", "flush_doc"}
    /\ LET path == IF reqs[r].pc = "flush_png" THEN RasterPath(reqs[r].kind, reqs[r].plot)
                   ELSE DocPath(reqs[r].kind, reqs[r].plot)
       IN  files' = [files EXCEPT ![path] =
                        IF @.writer = r THEN [@ EXCEPT !.complete = TRUE]
                        ELSE [@ EXCEPT !.content = @ \cup {Mark(r, "tail")}]]
    /\ reqs' = [reqs EXCEPT ![r].pc = IF reqs[r].pc = "flush_png" THEN "close" ELSE "respond"]
    /\ UNCHANGED <<plots, figs, canvas, nextfig, log, exceptExport>>

\* plt.close(fig)
Close(r) ==
    /\ reqs[r].pc = "close"
    /\ LET Open(g) == g # reqs[r].fig
       IN  figs' = SelectSeq(figs, Open)
    /\ reqs' = [reqs EXCEPT ![r].pc = IF reqs[r].kind \in {"report_pdf", "orthophoto_pdf"}
                                      THEN "embed" ELSE "respond"]
    /\ UNCHANGED <<plots, files, canvas, nextfig, log, exceptExport>>

\* generate_plot_report_pdf(report, pdf_path, map_path): Image.open and
\* drawImage fail on a raster that is not a whole image.
\* render_orthophoto_pdf_from_png(png_path, pdf_path): RuntimeError under 2000
\* bytes, else ImageReader fails on a raster that is not a whole image.
Embed(r) ==
    /\ reqs[r].pc = "embed"
    /\ LET raster == files[RasterPath(reqs[r].kind, reqs[r].plot)]
           path   == DocPath(reqs[r].kind, reqs[r].plot)
       IN  IF raster.complete
           THEN /\ files' = (path :> Opened(r, {Mark(r, "document")} \cup raster.content))
                                @@ files
                /\ reqs' = [reqs EXCEPT ![r].pc = "flush_doc"]
           ELSE /\ files' = files
                /\ \E e \in (IF reqs[r].kind = "orthophoto_pdf"
                             THEN {"RuntimeError: Generated PNG is invalid or missing.",
                                   "OSError: cannot identify image file"}
                             ELSE {"OSError: cannot identify image file"}) :
                       reqs' = [reqs EXCEPT ![r].pc = "failed", ![r].err = e]
    /\ UNCHANGED <<plots, figs, canvas, nextfig, log, exceptExport>>

\* render_back_computation_pdf(...) / doc.saveas(output_path)
Build(r) ==
    /\ reqs[r].pc = "build"
    /\ files' = (DocPath(reqs[r].kind, reqs[r].plot) :> Opened(r, {Mark(r, "document")}))
                    @@ files
    /\ reqs' = [reqs EXCEPT ![r].pc = "flush_doc"]
    /\ UNCHANGED <<plots, figs, canvas, nextfig, log, exceptExport>>

\* return FileResponse(path): the file as it is when the response is sent
Respond(r) ==
    /\ reqs[r].pc = "respond"
    /\ reqs' = [reqs EXCEPT ![r].ret = files[ResponsePath(reqs[r].kind, reqs[r].plot)],
                            ![r].pc = "done"]
    /\ UNCHANGED <<plots, files, figs, canvas, nextfig, log, exceptExport>>

NextExport ==
    \E r \in Requests :
        \/ Query(r)
        \/ Figure(r)
        \/ Basemap(r)
        \/ Draw(r)
        \/ SaveFig(r)
        \/ SaveFigFails(r)
        \/ Flush(r)
        \/ Close(r)
        \/ Embed(r)
        \/ Build(r)
        \/ Respond(r)

SpecExport == InitExport /\ [][NextExport]_vars


----------------------------------------------------------------------------
(* Properties of the export routes *)

\* the exceptions that report a missing plot
IsNotFound(e) == e = "ValueError: Plot not found"

\* no file holds anything written by request r
WroteNothing(r) ==
    \A p \in DOMAIN files :
        files[p].writer # r /\ \A m \in files[p].content : m.by # r

\* a request for a plot that is not in the store stops at the query with a
\* not-found error, having written nothing
FailsNotFound(r) ==
    /\ reqs[r].pc \in {"query", "failed"}
    /\ reqs[r].pc = "failed" => IsNotFound(reqs[r].err)
    /\ WroteNothing(r)

\* C13: every export operation on a plot id that is not in the store fails
\* with a not-found error, and when it fails the request has created or
\* modified no artifact file, final or intermediate.
C13_NotFoundNoFile ==
    \A r \in DOMAIN reqs : reqs[r].plot \notin plots => FailsNotFound(r)

\* the part of C13 the code meets: no route writes a file for a missing plot,
\* and every route but the traverse-table document fails with not-found
MissingPlotWritesNothing ==
    \A r \in DOMAIN reqs :
        reqs[r].plot \notin plots =>
            /\ reqs[r].pc \in {"query", "failed"}
            /\ WroteNothing(r)
            /\ reqs[r].kind # "back_computation_pdf" => FailsNotFound(r)
            /\ (reqs[r].kind = "back_computation_pdf" /\ reqs[r].pc = "failed")
                   => ~IsNotFound(reqs[r].err)

----------------------------------------------------------------------------
(* create_plot: the boundary ring a plot is stored with *)

\* longest list of coordinate pairs sent to create_plot
MaxRing == 5

\* (longitude, latitude) pairs, in thousandths of a degree
LonLat == {<<7000, 9000>>, <<7000, 9001>>, <<7001, 9001>>, <<7001, 9000>>}

\* shapely's Polygon(coords): no coordinates give the empty polygon; a ring
\* whose first and last pair differ is closed by repeating the first pair;
\* a closed ring of fewer than 4 pairs raises ValueError
Polygon(cs) ==
    IF Len(cs) = 0 THEN [error |-> "none", exterior |-> <<>>]
    ELSE LET closed == IF cs[1] = cs[Len(cs)] THEN cs ELSE Append(cs, cs[1])
         IN  IF Len(closed) < 4
             THEN [error |-> "ValueError", exterior |-> <<>>]
             ELSE [error |-> "none", exterior |-> closed]

InitCreate ==
    /\ \E n \in 0..MaxRing : cin \in [1..n -> LonLat]
    /\ cpoly = <<>>
    /\ cstore = <<>>
    /\ cerr = "none"
    /\ crows = <<>>
    /\ cpc = "start"
    /\ IdleExceptCreate

\* polygon = Polygon(coords)
MakePolygon ==
    /\ cpc = "start"
    /\ cpoly' = Polygon(cin)
    /\ IF Polygon(cin).error = "none"
       THEN cpc' = "polygon" /\ cerr' = cerr
       ELSE cpc' = "failed" /\ cerr' = Polygon(cin).error
    /\ UNCHANGED <<cin, cstore, crows, exceptCreate>>

\* plot = Plot(geom=geom); db.add(plot); db.commit(): nothing checks the ring
StorePlot ==
    /\ cpc = "polygon"
    /\ cstore' = Append(cstore, cpoly.exterior)
    /\ cpc' = "stored"
    /\ UNCHANGED <<cin, cpoly, cerr, crows, exceptCreate>>

\* download_back_computation_pdf on the stored plot: a row per edge of
\* list(poly.exterior.coords)
TraverseStored ==
    /\ cpc = "stored"
    /\ crows' = [k \in 1..EdgeCount(cstore[Len(cstore)]) |->
                    [from |-> cstore[Len(cstore)][k], to |-> cstore[Len(cstore)][k + 1]]]
    /\ cpc' = "exported"
    /\ UNCHANGED <<cin, cpoly, cstore, cerr, exceptCreate>>

NextCreate == MakePolygon \/ StorePlot \/ TraverseStored

SpecCreate == InitCreate /\ [][NextCreate]_vars

\* first and last coordinate pair coincide
IsClosedRing(cs) == Len(cs) >= 2 /\ cs[1] = cs[Len(cs)]

DistinctVertices(cs) == Cardinality({cs[k] : k \in 1..Len(cs)})

\* C14: a boundary ring that is not closed, or has fewer than 3 distinct
\* vertices, is rejected with an InvalidGeometry error: no plot is stored for
\* it and no traverse rows or export artifact are produced from it.
C14_InvalidRingRejected ==
    (cpc \notin {"idle", "start"} /\ (~IsClosedRing(cin) \/ DistinctVertices(cin) < 3)) =>
        /\ cpc = "failed"
        /\ cerr = "InvalidGeometry"
        /\ cstore = <<>>
        /\ crows = <<>>

\* what create_plot does instead: it rejects, with shapely's ValueError, the
\* lists that close to fewer than 4 pairs, and stores every other list, closed
\* by shapely if it came open
CreateStoresClosedRing ==
    /\ cpc = "failed" => (cerr = "ValueError" /\ cstore = <<>> /\ Len(cin) \in 1..3)
    /\ cpc \in {"stored", "exported"} =>
          /\ Len(cstore) = 1
          /\ cin # <<>> =>
                /\ IsClosedRing(cstore[1])
                /\ cstore[1] \in {cin, Append(cin, cin[1])}
    /\ cpc = "exported" => Len(crows) = EdgeCount(cstore[1])

----------------------------------------------------------------------------
(* The document exporters that embed an intermediate raster *)

\* os.path.getsize(png_path) < 2000
MinPngBytes == 2000

\* sizes in bytes of the raster file found at the path
RasterSizes == {0, 1, 67, 512, 1999, 2000, 2001, 10240, 48213}

\* the raster at the path: missing, or a file of some size that is a whole
\* image or not (a file under 67 bytes is no image)
Rasters ==
    {[exists |-> FALSE, size |-> 0, image |-> FALSE]}
    \cup {[exists |-> TRUE, size |-> s, image |-> FALSE] : s \in RasterSizes}
    \cup {[exists |-> TRUE, size |-> s, image |-> TRUE] : s \in {t \in RasterSizes : t >= 67}}

InitEmbed ==
    /\ exporter \in {"render_orthophoto_pdf_from_png", "generate_plot_report_pdf"}
    /\ png \in Rasters
    /\ edoc \in {"absent", "earlier"}
    /\ eerr = "none"
    /\ epc = "start"
    /\ IdleExceptEmbed

\* if not os.path.exists(png_path) or os.path.getsize(png_path) < 2000: raise
OrthoCheckRaster ==
    /\ exporter = "render_orthophoto_pdf_from_png"
    /\ epc = "start"
    /\ IF ~png.exists \/ png.size < MinPngBytes
       THEN epc' = "failed" /\ eerr' = "RuntimeError: Generated PNG is invalid or missing."
       ELSE epc' = "checked" /\ eerr' = eerr
    /\ UNCHANGED <<exporter, png, edoc, exceptEmbed>>

\* img = ImageReader(png_path); c.drawImage(img, ...)
OrthoReadRaster ==
    /\ exporter = "render_orthophoto_pdf_from_png"
    /\ epc = "checked"
    /\ IF png.image
       THEN epc' = "drawn" /\ eerr' = eerr
       ELSE epc' = "failed" /\ eerr' = "OSError: cannot identify image file"
    /\ UNCHANGED <<exporter, png, edoc, exceptEmbed>>

\* page 1, then img = Image.open(map_image_path); c.drawImage(map_image_path, ...)
ReportReadRaster ==
    /\ exporter = "generate_plot_report_pdf"
    /\ epc = "start"
    /\ IF ~png.exists
       THEN epc' = "failed" /\ eerr' = "FileNotFoundError"
       ELSE IF ~png.image
       THEN epc' = "failed" /\ eerr' = "OSError: cannot identify image file"
       ELSE epc' = "drawn" /\ eerr' = eerr
    /\ UNCHANGED <<exporter, png, edoc, exceptEmbed>>

\* c.showPage(); c.save(): the document file is written
SaveDocument ==
    /\ epc = "drawn"
    /\ edoc' = "written"
    /\ epc' = "saved"
    /\ UNCHANGED <<exporter, png, eerr, exceptEmbed>>

NextEmbed == OrthoCheckRaster \/ OrthoReadRaster \/ ReportReadRaster \/ SaveDocument

SpecEmbed == InitEmbed /\ [][NextEmbed]_vars

\* the raster is missing, empty or too small
RasterTooSmall(f) == ~f.exists \/ f.size < MinPngBytes

IsIntegrityError(e) == e = "RuntimeError: Generated PNG is invalid or missing."

\* C15: a document exporter given a raster that is missing, empty or too
\* small fails with an integrity error and writes no document; a document is
\* written only after the raster has passed the check.  For the imagery
\* document and for the paginated report.
C15_RasterChecked ==
    /\ (epc \notin {"idle", "start"} /\ RasterTooSmall(png)) =>
          (epc = "failed" /\ IsIntegrityError(eerr) /\ edoc # "written")
    /\ edoc = "written" => ~RasterTooSmall(png)

\* the part of C15 the code meets: the imagery document is as claimed, and
\* neither exporter writes a document from a file that is not a whole image
ImageryRasterChecked ==
    /\ exporter = "render_orthophoto_pdf_from_png" => C15_RasterChecked
    /\ edoc = "written" => (png.exists /\ png.image)
    /\ epc = "failed" => edoc # "written"

----------------------------------------------------------------------------
(* The imagery fetch of render_orthophoto_png *)

\* steps of a call that come after its savefig
AfterSaveFig == {"flush_png", "close", "embed", "flush_doc", "respond", "done"}

\* C16: in the imagery raster variant a failed fetch of the base-imagery
\* tiles is logged and the export still completes: grid, frame, plot boundary,
\* title block, footer, north arrow and scale bar are drawn and the raster is
\* written without the imagery layer; the export never fails because of the
\* fetch.
C16_FetchFailureLogged ==
    \A r \in DOMAIN reqs :
        reqs[r].fetch = "failed" =>
            /\ \E k \in 1..Len(log) : log[k].by = r
            /\ (reqs[r].pc = "failed" /\ reqs[r].err # "OSError: savefig") =>
                  reqs[r].kind = "orthophoto_pdf"
            /\ reqs[r].pc \in AfterSaveFig => reqs[r].saved = Drawing(r, reqs[r].kind)

\* the part of C16 the code meets: after a failed fetch the call goes on, draws
\* every element and saves the raster without imagery, and fails, if at all,
\* only when the raster cannot be written or later when the document is built;
\* nothing is ever logged
FetchFailureNotFatal ==
    /\ log = <<>>
    /\ \A r \in DOMAIN reqs :
          reqs[r].fetch = "failed" =>
              /\ reqs[r].pc \in {"draw", "savefig", "failed"} \cup AfterSaveFig
              /\ (reqs[r].pc = "failed" /\ reqs[r].err # "OSError: savefig") =>
                    /\ reqs[r].kind = "orthophoto_pdf"
                    /\ reqs[r].err \notin MissingPlotErrors(reqs[r].kind)
                    /\ reqs[r].saved = Drawing(r, reqs[r].kind)
              /\ reqs[r].pc \in AfterSaveFig =>
                    /\ reqs[r].saved = Drawing(r, reqs[r].kind)
                    /\ Mark(r, "imagery") \notin reqs[r].saved
                    /\ RasterPath(reqs[r].kind, reqs[r].plot) \in DOMAIN files

----------------------------------------------------------------------------
(* Ownership of the canvas and of the output path *)

\* what request r draws on its own figure
OwnDrawing(r) ==
    Drawing(r, reqs[r].kind)
    \cup (IF reqs[r].fetch = "ok" THEN {Mark(r, "imagery")} ELSE {})

\* the two requests in flight differ in plot or in kind
DifferentExports ==
    /\ DOMAIN reqs = Requests
    /\ \E a, b \in Requests : reqs[a].plot # reqs[b].plot \/ reqs[a].kind # reqs[b].kind

\* request r draws on no figure but its own
DrawsOnOwnCanvas(r) ==
    \A f \in DOMAIN canvas : \A m \in canvas[f] : m.by = r => f = reqs[r].fig

\* what r's savefig wrote to r's output path is what r drew
SavesOwnCanvas(r) ==
    (reqs[r].kind \in LayoutKinds \cup OrthoKinds /\ reqs[r].pc \in AfterSaveFig) =>
        reqs[r].saved = OwnDrawing(r)

\* C17: under any interleaving of concurrent export calls for different plots
\* or kinds, each call draws on and saves only its own canvas: the file
\* written to its output path holds exactly what that call drew.
C17_OwnCanvas ==
    DifferentExports => \A r \in Requests : DrawsOnOwnCanvas(r) /\ SavesOwnCanvas(r)

\* the part of C17 the code meets: every call draws on its own figure only,
\* and render_orthophoto_png, which calls fig.savefig, saves its own figure
ImagerySavesOwnCanvas ==
    \A r \in DOMAIN reqs :
        /\ DrawsOnOwnCanvas(r)
        /\ reqs[r].kind \in OrthoKinds => SavesOwnCanvas(r)

\* what render_plot_map_layout saves instead: the figure made last in the
\* process, whichever call made it, as far as it is drawn by then
LayoutSavesCurrentFigure ==
    \A r \in DOMAIN reqs :
        (reqs[r].kind \in LayoutKinds /\ reqs[r].pc \in AfterSaveFig) =>
            \E o \in Requests :
                reqs[r].saved \subseteq Drawing(o, reqs[o].kind) \cup {Mark(o, "imagery")}

\* two exports have an output path in common
SharePath(k1, i1, k2, i2) == OutputPaths(k1, i1) \cap OutputPaths(k2, i2) # {}

\* C18: every file an export writes has a path that is a function of (plot
\* id, artifact kind) only, so that two exports write a common path only if
\* they have the same plot id and kind; the writes go to that final path
\* itself, unserialized, and a request is returned a file written by another
\* request only in such a pair (that it is returned one is C18_Witness).
C18_PathRace ==
    /\ \A k1, k2 \in ExportKinds : \A i1, i2 \in PlotIds :
          SharePath(k1, i1, k2, i2) => (k1 = k2 /\ i1 = i2)
    /\ \A p \in DOMAIN files :
          p \in OutputPaths(reqs[files[p].writer].kind, reqs[files[p].writer].plot)
    /\ \A r \in DOMAIN reqs :
          (reqs[r].pc = "done" /\ reqs[r].ret.writer # r) =>
              /\ reqs[reqs[r].ret.writer].kind = reqs[r].kind
              /\ reqs[reqs[r].ret.writer].plot = reqs[r].plot

\* two requests for the same plot and kind were writing the same path at once,
\* and the file returned to request 1 is the one request 2 wrote
C18_Witness ==
    /\ DOMAIN reqs = Requests
    /\ reqs[1].pc = "done"
    /\ reqs[1].ret.writer = 2
    /\ \A m \in reqs[1].ret.content : m.by = 2
    /\ reqs[1].kind = reqs[2].kind /\ reqs[1].plot = reqs[2].plot

----------------------------------------------------------------------------
(* The area each output prints: areas in m2 unless said otherwise *)

\* latitudes of the plots, whole degrees north
PlotLatitudes == {0, 4, 9, 13}

\* ground sides of the rectangular plots, whole metres
PlotSides == {0, 10, 25, 100, 140}

\* area of a small figure in EPSG:3857 over its area on the WGS84 spheroid, in
\* 1e-4: (1 - e2 sin2(lat))^2 / ((1 - e2) cos2(lat))
MercatorAreaFactor(lat) ==
    CASE lat = 0 -> 10067
      [] lat = 4 -> 10116
      [] lat = 9 -> 10317
      [] lat = 13 -> 10597

\* ST_Area(geom::geography): the area on the spheroid, in 1e-4 m2
ST_Area(plot) == plot.w * plot.h * 10000

\* gpd.GeoDataFrame(..., crs="EPSG:4326").to_crs(3857) ... poly.area, in 1e-4 m2
MercatorArea(plot) == plot.w * plot.h * MercatorAreaFactor(plot.lat)

\* get_plot_report: "area_m2": round(area, 2) if area else None, printed on
\* page 1 as f"Area (sqm): {area_m2}"; in 0.01 m2
ReportArea(plot) ==
    IF ST_Area(plot) = 0 THEN [text |-> "None", value |-> 0, unit |-> "cm2"]
    ELSE [text |-> "number", value |-> RoundDiv(ST_Area(plot), 100), unit |-> "cm2"]

\* draw_title_block: f"AREA = {area_m2/10000:.4f} HA.": in 0.0001 ha = 1 m2
TitleArea(plot) ==
    [text |-> "number", value |-> RoundDiv(MercatorArea(plot), 10000), unit |-> "m2"]

\* render_back_computation_pdf: f"AREA = {area_m2:,.2f} m2"; in 0.01 m2
TableArea(plot) ==
    [text |-> "number", value |-> RoundDiv(MercatorArea(plot), 100), unit |-> "cm2"]

InitArea ==
    /\ aplot \in [w : PlotSides, h : PlotSides, lat : PlotLatitudes]
    /\ aout = <<>>
    /\ IdleExceptArea

\* page 1 of the paginated report
PrintReportArea ==
    /\ "report page 1" \notin DOMAIN aout
    /\ aout' = aout @@ ("report page 1" :> ReportArea(aplot))
    /\ UNCHANGED <<aplot, exceptArea>>

\* the title block of the map: page 2 of the report and the raster preview
PrintTitleArea ==
    /\ "map title block" \notin DOMAIN aout
    /\ aout' = aout @@ ("map title block" :> TitleArea(aplot))
    /\ UNCHANGED <<aplot, exceptArea>>

\* the traverse-table document
PrintTableArea ==
    /\ "traverse table" \notin DOMAIN aout
    /\ aout' = aout @@ ("traverse table" :> TableArea(aplot))
    /\ UNCHANGED <<aplot, exceptArea>>

NextArea == PrintReportArea \/ PrintTitleArea \/ PrintTableArea

SpecArea == InitArea /\ [][NextArea]_vars

\* a printed area in 0.01 m2
InCm2(a) == IF a.unit = "m2" THEN 100 * a.value ELSE a.value

\* half a unit of the last printed digit, in 0.01 m2
HalfDigit(a) == IF a.unit = "m2" THEN 50 ELSE 1

\* two printed areas agree up to unit and rounding
SameArea(a, b) ==
    /\ a.text = "number" /\ b.text = "number"
    /\ Abs(InCm2(a) - InCm2(b)) <= HalfDigit(a) + HalfDigit(b)

\* C19: for the same plot the area on page 1 of the paginated report, the area
\* in the map title block and the area on the traverse-table document agree up
\* to unit and rounding.
C19_SameArea ==
    \A f, g \in DOMAIN aout : SameArea(aout[f], aout[g])

\* the part of C19 the code meets: the title block and the traverse table
\* print the same area; page 1 prints a smaller one for every plot that has an
\* area, by the factor of the projection
MercatorOutputsAgree ==
    /\ {"map title block", "traverse table"} \subseteq DOMAIN aout =>
          SameArea(aout["map title block"], aout["traverse table"])
    /\ ({"report page 1", "traverse table"} \subseteq DOMAIN aout /\ aplot.w * aplot.h > 0) =>
          /\ aout["report page 1"].value < aout["traverse table"].value
          /\ ~SameArea(aout["report page 1"], aout["traverse table"])

----------------------------------------------------------------------------
(* dwg_exporter.export_survey_plan_to_dxf: coordinates in mm of EPSG:3857 *)

\* projected vertices of the stored plots
CadPoints == {[x |-> px, y |-> py] : px \in {-30500, 95250}, py \in {12000, 61750}}

\* list(poly.exterior.coords): empty for the empty polygon, else 3..MaxVerts
\* vertices and the closing one
IsCadRing(r) ==
    \/ r = <<>>
    \/ \E n \in 3..MaxVerts : \E vs \in [1..n -> CadPoints] : r = CloseRing(vs)

\* the rows of detected_features: geom is NULL, or a geometry of one or more
\* parts, each a list of coordinate pairs (the exterior ring for a polygon),
\* and the interior rings of its polygons
CadLine == <<[x |-> -30500, y |-> 40000], [x |-> 20000, y |-> 40000], [x |-> 95250, y |-> 61750]>>
CadHouse ==
    <<[x |-> 0, y |-> 20000], [x |-> 8000, y |-> 20000], [x |-> 8000, y |-> 26000],
      [x |-> 0, y |-> 26000], [x |-> 0, y |-> 20000]>>
CadShed ==
    <<[x |-> 50000, y |-> 30000], [x |-> 53000, y |-> 30000], [x |-> 53000, y |-> 34000],
      [x |-> 50000, y |-> 30000]>>
CadYard ==
    <<[x |-> 2000, y |-> 22000], [x |-> 6000, y |-> 22000], [x |-> 4000, y |-> 24000],
      [x |-> 2000, y |-> 22000]>>

FeatureRows ==
    { [feature_type |-> "building", geom_type |-> "Polygon",
       parts |-> <<CadHouse>>, holes |-> <<>>],
      [feature_type |-> "building", geom_type |-> "MultiPolygon",
       parts |-> <<CadHouse, CadShed>>, holes |-> <<>>],
      [feature_type |-> "building", geom_type |-> "MultiPolygon",
       parts |-> <<CadHouse>>, holes |-> <<CadYard>>],
      [feature_type |-> "building", geom_type |-> "Point",
       parts |-> <<SubSeq(CadHouse, 1, 1)>>, holes |-> <<>>],
      [feature_type |-> "road", geom_type |-> "LineString",
       parts |-> <<CadLine>>, holes |-> <<>>],
      [feature_type |-> "river", geom_type |-> "MultiLineString",
       parts |-> <<CadLine, SubSeq(CadHouse, 1, 2)>>, holes |-> <<>>],
      [feature_type |-> "road", geom_type |-> "NULL",
       parts |-> <<>>, holes |-> <<>>],
      [feature_type |-> "tree", geom_type |-> "Point",
       parts |-> <<SubSeq(CadShed, 1, 1)>>, holes |-> <<>>] }

\* fetchall(): no row, one row or two rows
IsFeatureList(rs) ==
    \/ rs = <<>>
    \/ \E f \in FeatureRows : rs = <<f>>
    \/ \E f, g \in FeatureRows : rs = <<f, g>>

\* for r in rows: rows without a geometry are skipped, the others are sorted
\* by feature_type into buildings, roads and rivers; other types are dropped
RowsOfType(rs, t) ==
    SelectSeq(rs, LAMBDA r : r.geom_type # "NULL" /\ r.feature_type = t)

\* ezdxf.new("R2018"): the layers every new document has, colour 7
NewDocLayers == ("0" :> 7) @@ ("Defpoints" :> 7)

\* add_layers: each of the seven names not yet in doc.layers is created with
\* its colour index
add_layers(layers) ==
    [name \in DOMAIN layers \cup {"PLOT", "BUILDINGS", "ROADS", "RIVERS", "GRID", "COORDS", "TEXT"} |->
        IF name \in DOMAIN layers THEN layers[name]
        ELSE CASE name = "PLOT" -> 1
               [] name = "BUILDINGS" -> 7
               [] name = "ROADS" -> 8
               [] name = "RIVERS" -> 5
               [] name = "GRID" -> 4
               [] name = "COORDS" -> 4
               [] name = "TEXT" -> 2]

\* msp.add_line(p1, p2, dxfattribs={"layer": layer})
add_line(p1, p2, layer) == [dxftype |-> "LINE", layer |-> layer, at |-> <<p1, p2>>]

\* add_text(msp, txt, x, y, h, layer, rot): the entity and the points its
\* placement is computed from
add_text(pts, layer) == [dxftype |-> "TEXT", layer |-> layer, at |-> pts]

\* a faulty variant of the line loop: closes the chain with a line from the
\* last pair to the first
LinesAlongClosed(pts, layer) ==
    [k \in 1..Len(pts) |-> add_line(pts[k], pts[(k % Len(pts)) + 1], layer)]

\* for i in range(len(pts) - 1): msp.add_line(pts[i], pts[i + 1], layer);
\* range() of a negative number is empty
LinesAlong(pts, layer) ==
    [k \in 1..(IF Len(pts) = 0 THEN 0 ELSE Len(pts) - 1) |-> add_line(pts[k], pts[k + 1], layer)]

\* the same over the parts of a list of geometries, in order
RECURSIVE LinesOfParts(_, _)
LinesOfParts(parts, layer) ==
    IF parts = <<>> THEN <<>>
    ELSE LinesAlong(Head(parts), layer) \o LinesOfParts(Tail(parts), layer)

RECURSIVE LinesOfRows(_, _, _)
LinesOfRows(rs, kinds, layer) ==
    IF rs = <<>> THEN <<>>
    ELSE (IF Head(rs).geom_type \in kinds THEN LinesOfParts(Head(rs).parts, layer) ELSE <<>>)
             \o LinesOfRows(Tail(rs), kinds, layer)

\* draw_lines(gdf, layer): LineString and MultiLineString geometries only
draw_lines(rs, layer) == LinesOfRows(rs, {"LineString", "MultiLineString"}, layer)

\* the buildings: exterior rings of Polygon and MultiPolygon geometries only
draw_buildings(rs) == LinesOfRows(rs, {"Polygon", "MultiPolygon"}, "BUILDINGS")

\* the bearing and distance text of every edge on TEXT
BearingTexts(cs) ==
    [k \in 1..(IF Len(cs) = 0 THEN 0 ELSE Len(cs) - 1) |-> add_text(<<cs[k], cs[k + 1]>>, "TEXT")]

\* poly.bounds of a ring that is not empty
RingBounds(cs) ==
    LET xs == {cs[k].x : k \in DOMAIN cs}
        ys == {cs[k].y : k \in DOMAIN cs}
    IN  [minx |-> CHOOSE v \in xs : \A u \in xs : v <= u,
         miny |-> CHOOSE v \in ys : \A u \in ys : v <= u,
         maxx |-> CHOOSE v \in xs : \A u \in xs : v >= u,
         maxy |-> CHOOSE v \in ys : \A u \in ys : v >= u]

\* math.floor(v / spacing) * spacing and math.ceil(v / spacing) * spacing
FloorTo(v, spacing) == (v \div spacing) * spacing
CeilTo(v, spacing) == -(((-v) \div spacing) * spacing)

\* draw_grid_and_coords: a line on GRID and one text on COORDS for every
\* vertical, a line and two texts for every horizontal (exact arithmetic; the
\* repeated float addition x += spacing is not modelled)
draw_grid_and_coords(b, spacing) ==
    LET gxmin == FloorTo(b.minx, spacing)
        gxmax == CeilTo(b.maxx, spacing)
        gymin == FloorTo(b.miny, spacing)
        gymax == CeilTo(b.maxy, spacing)
        nx    == (gxmax - gxmin) \div spacing + 1
        ny    == (gymax - gymin) \div spacing + 1
        vert(k) == LET gx == gxmin + (k - 1) * spacing
                   IN  <<add_line([x |-> gx, y |-> gymin], [x |-> gx, y |-> gymax], "GRID"),
                         add_text(<<[x |-> gx, y |-> gymax]>>, "COORDS")>>
        horiz(k) == LET gy == gymin + (k - 1) * spacing
                    IN  <<add_line([x |-> gxmin, y |-> gy], [x |-> gxmax, y |-> gy], "GRID"),
                          add_text(<<[x |-> gxmin, y |-> gy]>>, "COORDS"),
                          add_text(<<[x |-> gxmax, y |-> gy]>>, "COORDS")>>
    IN  [j \in 1..(2 * nx) |-> vert((j + 1) \div 2)[2 - (j % 2)]]
        \o [j \in 1..(3 * ny) |-> horiz((j + 2) \div 3)[((j - 1) % 3) + 1]]

NoDoc == [layers |-> <<>>, msp |-> <<>>]

InitCad ==
    /\ \E found \in BOOLEAN : \E n \in 0..(MaxVerts + 1) : \E r \in [1..n -> CadPoints] :
          /\ IsCadRing(r)
          /\ found \/ r = <<>>
          /\ cad_plot = [found |-> found, ring |-> r]
    /\ \E n \in 0..2 : \E rs \in [1..n -> FeatureRows] : IsFeatureList(rs) /\ cad_rows = rs
    /\ cad_feat = [buildings |-> <<>>, roads |-> <<>>, rivers |-> <<>>]
    /\ cad_doc = NoDoc
    /\ cad_file = [exists |-> FALSE, doc |-> NoDoc]
    /\ cad_err = "none"
    /\ cad_pc = "start"
    /\ IdleExceptCad

\* the two queries and the sorting of the rows
CadQuery ==
    /\ cad_pc = "start"
    /\ IF ~cad_plot.found
       THEN /\ cad_err' = "ValueError: Plot not found"
            /\ cad_pc' = "failed"
            /\ UNCHANGED cad_feat
       ELSE /\ cad_feat' = [buildings |-> RowsOfType(cad_rows, "building"),
                            roads     |-> RowsOfType(cad_rows, "road"),
                            rivers    |-> RowsOfType(cad_rows, "river")]
            /\ cad_pc' = "loaded"
            /\ UNCHANGED cad_err
    /\ UNCHANGED <<cad_plot, cad_rows, cad_doc, cad_file, exceptCad>>

\* doc = ezdxf.new("R2018"); add_layers(doc); msp = doc.modelspace()
CadNewDoc ==
    /\ cad_pc = "loaded"
    /\ cad_doc' = [layers |-> add_layers(NewDocLayers), msp |-> <<>>]
    /\ cad_pc' = "layers"
    /\ UNCHANGED <<cad_plot, cad_rows, cad_feat, cad_file, cad_err, exceptCad>>

\* the plot boundary on PLOT, then the bearing texts on TEXT
CadBoundary ==
    /\ cad_pc = "layers"
    /\ cad_doc' = [cad_doc EXCEPT !.msp =
          @ \o LinesAlong(cad_plot.ring, "PLOT") \o BearingTexts(cad_plot.ring)]
    /\ cad_pc' = "boundary"
    /\ UNCHANGED <<cad_plot, cad_rows, cad_feat, cad_file, cad_err, exceptCad>>

\* c = poly.centroid; add_text(msp, f"PLOT {plot_id}", c.x, c.y, 6.0): the
\* centroid of the empty polygon is the empty point, whose x is an error or
\* nan according to the version of shapely
CadLabel ==
    /\ cad_pc = "boundary"
    /\ \/ /\ cad_doc' = [cad_doc EXCEPT !.msp = Append(@, add_text(cad_plot.ring, "TEXT"))]
          /\ cad_pc' = "labelled"
          /\ UNCHANGED cad_err
       \/ /\ cad_plot.ring = <<>>
          /\ cad_err' = "centroid of the empty polygon"
          /\ cad_pc' = "failed"
          /\ UNCHANGED cad_doc
    /\ UNCHANGED <<cad_plot, cad_rows, cad_feat, cad_file, exceptCad>>

\* draw_lines(gdf_roads, "ROADS"); draw_lines(gdf_rivers, "RIVERS"); the
\* buildings
CadFeatures ==
    /\ cad_pc = "labelled"
    /\ cad_doc' = [cad_doc EXCEPT !.msp =
          @ \o draw_lines(cad_feat.roads, "ROADS") \o draw_lines(cad_feat.rivers, "RIVERS")
            \o draw_buildings(cad_feat.buildings)]
    /\ cad_pc' = "features"
    /\ UNCHANGED <<cad_plot, cad_rows, cad_feat, cad_file, cad_err, exceptCad>>

\* span = max(maxx - minx, maxy - miny); major = nice_grid_step(span);
\* draw_grid_and_coords(...). The bounds of the empty polygon are nan or
\* missing: math.floor(math.log10(nan)) raises ValueError
CadGrid ==
    /\ cad_pc = "features"
    /\ IF cad_plot.ring = <<>>
       THEN /\ cad_err' = "ValueError: cannot convert float NaN to integer"
            /\ cad_pc' = "failed"
            /\ UNCHANGED cad_doc
       ELSE LET b    == RingBounds(cad_plot.ring)
                span == Max(b.maxx - b.minx, b.maxy - b.miny)
            IN  /\ cad_doc' = [cad_doc EXCEPT !.msp =
                      @ \o draw_grid_and_coords(b, dwg_nice_grid_step(span))]
                /\ cad_pc' = "grid"
                /\ UNCHANGED cad_err
    /\ UNCHANGED <<cad_plot, cad_rows, cad_feat, cad_file, exceptCad>>

\* doc.saveas(output_path)
CadSave ==
    /\ cad_pc = "grid"
    /\ cad_file' = [exists |-> TRUE, doc |-> cad_doc]
    /\ cad_pc' = "saved"
    /\ UNCHANGED <<cad_plot, cad_rows, cad_feat, cad_doc, cad_err, exceptCad>>

NextCad ==
    CadQuery \/ CadNewDoc \/ CadBoundary \/ CadLabel \/ CadFeatures \/ CadGrid \/ CadSave

SpecCad == InitCad /\ [][NextCad]_vars

\* the entities of the saved file on one layer
OnLayer(layer) == SelectSeq(cad_file.doc.msp, LAMBDA e : e.layer = layer)

\* the saved file has the layer with the colour index
HasLayer(name, color) ==
    name \in DOMAIN cad_file.doc.layers /\ cad_file.doc.layers[name] = color

FeatureLinesFromRows ==
    cad_pc = "saved" =>
        /\ OnLayer("ROADS") = draw_lines(RowsOfType(cad_rows, "road"), "ROADS")
        /\ OnLayer("RIVERS") = draw_lines(RowsOfType(cad_rows, "river"), "RIVERS")
        /\ OnLayer("BUILDINGS") = draw_buildings(RowsOfType(cad_rows, "building"))
        /\ \A k \in DOMAIN cad_file.doc.msp :
              cad_file.doc.msp[k].layer \in {"PLOT", "BUILDINGS", "ROADS", "RIVERS", "GRID", "COORDS", "TEXT"}

\* the plot without a boundary, which create_plot stores for an empty list,
\* is never exported
EmptyPlotNotExported ==
    cad_plot.ring = <<>> => ~cad_file.exists /\ cad_pc # "saved"

----------------------------------------------------------------------------
(* The fields of a DMS text *)

\* C27: every text of deg_to_dms, for any input angle, has degrees in
\* 000..359, minutes in 00..59 and seconds in 00.00..59.99: the seconds are
\* never printed as 60.00.
C27_DmsFieldRanges ==
    dpc = "formatted" =>
        /\ dtext.deg \in 0..359
        /\ dtext.minute \in 0..59
        /\ dtext.sec \in 0..5999

\* what the code does keep: degrees and minutes are in range for every input,
\* angles outside [0, 360) included, and the seconds are at most 60.00, which
\* is printed exactly when the seconds are 59.995 or more
DmsFieldsUpToSixty ==
    dpc = "formatted" =>
        /\ dtext.deg \in 0..359
        /\ dtext.minute \in 0..59
        /\ dtext.sec \in 0..6000
        /\ dtext.sec = 6000 <=> (dangle % MasPerMin) >= 59995

----------------------------------------------------------------------------
(* The totals row of the traverse table *)

\* the sum of the values one column shows in the data rows, in mm: the table
\* prints r["dE"] and r["dN"] with the 3 decimals they were rounded to
RECURSIVE ColumnSum(_, _)
ColumnSum(rs, col) ==
    IF rs = <<>> THEN 0
    ELSE (IF col = "dE" THEN Head(rs).dE ELSE Head(rs).dN) + ColumnSum(Tail(rs), col)

\* C28: the total shown for dE equals the sum of the dE values shown in the
\* data rows, and likewise for dN, at the 3 decimals at which they are
\* printed, for every ring.
C28_TotalsMatchRows ==
    (BackComp /\ pc = "done") =>
        /\ ColumnSum(ret.rows, "dE") = ret.sum_de
        /\ ColumnSum(ret.rows, "dN") = ret.sum_dn

\* the total is the rounded sum of the unrounded deltas, so the shown values
\* add up to it only within half a millimetre per row
TotalsWithinRounding ==
    (BackComp /\ pc = "done") =>
        /\ 2 * Abs(ColumnSum(ret.rows, "dE") - ret.sum_de) <= Len(ret.rows)
        /\ 2 * Abs(ColumnSum(ret.rows, "dN") - ret.sum_dn) <= Len(ret.rows)

----------------------------------------------------------------------------
(* The station labels along the traverse *)

\* every row but the last ends on the station the next row starts from
RowsChain(rs) == \A k \in 1..(Len(rs) - 1) : rs[k].to = rs[k + 1].from

\* the last row ends on the station the first row starts from
RowsClose(rs) == rs # <<>> => rs[Len(rs)].to = rs[1].from

\* C26: the station labels of a traverse over a closed ring form a closed
\* loop: each row's to-station is the from-station of the next row, and the
\* to-station of the last row is the from-station of the first, for every
\* vertex count and label list.
C26_StationLoop ==
    (BackComp /\ pc = "done") => RowsChain(ret.rows) /\ RowsClose(ret.rows)

\* the rows do chain, and the traverse closes on its first station when the
\* number of edges is a multiple of the number of labels: the to-station is
\* stations[(i + 1) % len(stations)], which wraps at the end of the label list
\* and not at the end of the ring
StationLoopWhenLabelsDivide ==
    (BackComp /\ pc = "done") =>
        /\ RowsChain(ret.rows)
        /\ EdgeCount(coords) % Len(stations) = 0 => RowsClose(ret.rows)
        /\ (EdgeCount(coords) > 0 /\ EdgeCount(coords) < Len(stations)) =>
              ret.rows[Len(ret.rows)].to = Item(stations, EdgeCount(coords))

----------------------------------------------------------------------------
(* The rotation of the bearing/distance annotation of one edge *)

\* dwg_exporter: ang = degrees(atan2(p2.y - p1.y, p2.x - p1.x));
\* if ang < -90 or ang > 90: ang += 180
dwg_EdgeRotation(p1, p2) ==
    LET ang == Atan2Deg(p2.y - p1.y, p2.x - p1.x)
    IN  IF ang < -QuarterTurn \/ ang > QuarterTurn THEN ang + HalfTurn ELSE ang

InitRotation ==
    /\ rp1 \in GridPoints
    /\ rp2 \in GridPoints
    /\ rres = <<>>
    /\ IdleExceptRot

\* annotate_vertices: ax.text(..., rotation=ang)
RotateMap ==
    /\ "map" \notin DOMAIN rres
    /\ rres' = rres @@ ("map" :> EdgeRotation(rp1, rp2))
    /\ UNCHANGED <<rp1, rp2, exceptRot>>

\* export_survey_plan_to_dxf: add_text(msp, txt, mx, my, 3.0, rot=ang)
RotateCad ==
    /\ "cad" \notin DOMAIN rres
    /\ rres' = rres @@ ("cad" :> dwg_EdgeRotation(rp1, rp2))
    /\ UNCHANGED <<rp1, rp2, exceptRot>>

NextRotation == RotateMap \/ RotateCad

SpecRotation == InitRotation /\ [][NextRotation]_vars

\* the angle of the edge from the east axis, in (-180, 180] degrees
EdgeAngle == Atan2Deg(rp2.y - rp1.y, rp2.x - rp1.x)

\* the angle in (-180, 180] that turns a text as r does
AsTurn(r) ==
    LET t == r % FullTurn
    IN  IF t > HalfTurn THEN t - FullTurn ELSE t

\* C24: for every edge direction the rotation of the edge's annotation lies
\* in (-90, 90] degrees and is parallel to the edge (equal to the edge's
\* angle from the east axis modulo 180), in the raster map and in the CAD file.
C24_AnnotationUpright ==
    \A f \in DOMAIN rres :
        /\ -QuarterTurn < rres[f] /\ rres[f] <= QuarterTurn
        /\ (rres[f] - EdgeAngle) % HalfTurn = 0

\* what the code keeps: the rotation is parallel to the edge; it is the angle
\* itself in [-90, 90] and the angle plus 180 otherwise, so that the value is
\* in [-90, 90] for edges with no westward part and in [0, 90) or (270, 360]
\* for the others; as a turn of the text it is in [-90, 90], and -90 for the
\* edge that points due south; the map and the CAD file agree
RotationParallel ==
    /\ \A f \in DOMAIN rres :
          /\ (rres[f] - EdgeAngle) % HalfTurn = 0
          /\ -QuarterTurn <= AsTurn(rres[f]) /\ AsTurn(rres[f]) <= QuarterTurn
          /\ rres[f] = -QuarterTurn <=> (rp2.x = rp1.x /\ rp2.y < rp1.y)
          /\ rres[f] > QuarterTurn <=> (rp2.x < rp1.x /\ rp2.y >= rp1.y)
    /\ \A f, g \in DOMAIN rres : rres[f] = rres[g]

----------------------------------------------------------------------------
(* generate_plot_report_pdf, page 2: lengths in 1e-4 pt *)

\* A4: 210 mm x 297 mm in points
page_width == 5952756
page_height == 8418898

\* target_width = 500
target_width == 5000000

\* img.size: widths and heights in pixels (248 x 351 has the proportions of
\* the 8.27 in x 11.69 in figure of the layout)
ImageSizes == {1, 2, 3, 100, 248, 297, 351, 400}

\* target_height = target_width * (img_height_px / img_width_px)
target_height(w, h) == (target_width * h) \div w

InitPlace ==
    /\ img_width_px \in ImageSizes
    /\ img_height_px \in ImageSizes
    /\ image_box = <<>>
    /\ ipc = "page 2"
    /\ IdleExceptPlace

\* x = (page_width - target_width) / 2; y = (page_height - target_height) / 2;
\* c.drawImage(map_image_path, x, y, width=target_width, height=target_height,
\* preserveAspectRatio=True): x2 and y2 are twice x and y
DrawImage ==
    /\ ipc = "page 2"
    /\ image_box' = [x2 |-> page_width - target_width,
                     y2 |-> page_height - target_height(img_width_px, img_height_px),
                     width |-> target_width,
                     height |-> target_height(img_width_px, img_height_px)]
    /\ ipc' = "drawn"
    /\ UNCHANGED <<img_width_px, img_height_px, exceptPlace>>

\* c.showPage(); c.save()
SavePages ==
    /\ ipc = "drawn"
    /\ ipc' = "saved"
    /\ UNCHANGED <<img_width_px, img_height_px, image_box, exceptPlace>>

NextPlace == DrawImage \/ SavePages

SpecPlace == InitPlace /\ [][NextPlace]_vars

\* the box has the proportions of the image, within the 1e-4 pt of the model
AspectKept ==
    LET d == image_box.height * img_width_px - image_box.width * img_height_px
    IN  -img_width_px < d /\ d <= 0

\* the middle of the box is the middle of the page
Centred ==
    /\ image_box.x2 + image_box.width = page_width
    /\ image_box.y2 + image_box.height = page_height

\* the box lies within the page
WithinPage ==
    /\ image_box.x2 >= 0 /\ image_box.x2 + 2 * image_box.width <= 2 * page_width
    /\ image_box.y2 >= 0 /\ image_box.y2 + 2 * image_box.height <= 2 * page_height

\* C22: on page 2 of the report, for every image width and height, the image
\* is placed with its aspect ratio preserved, centred horizontally and
\* vertically, and scaled to fit: the placed rectangle lies within the page.
C22_ImageFitsPage ==
    ipc \in {"drawn", "saved"} => AspectKept /\ Centred /\ WithinPage

\* what the code keeps: the image is always 500 pt wide, centred and in
\* proportion; it lies within the page exactly when its height is at most
\* 841.89 / 500 of its width
ImageFitsWhenNotTall ==
    ipc \in {"drawn", "saved"} =>
        /\ AspectKept /\ Centred
        /\ image_box.width = target_width
        /\ WithinPage <=> target_height(img_width_px, img_height_px) <= page_height

----------------------------------------------------------------------------
(* The layout fields from the request to the sheet. A Python value is a
   sequence of strings: its type, then its content *)

Str(s) == <<"str", s>>
List(l) == <<"list">> \o l
PyNone == <<"None">>

\* `x if x else default` on such a value
IsTruthy(v) == v[1] # "None" /\ Len(v) > 1 /\ v # Str("")

\* the body fields of download_plot_report_pdf and preview_plot_map
Forms ==
    [title_text : {Str("SURVEY PLAN"), Str("PLAN OF LAND")},
     station_text : {Str(""), Str("KD 12")},
     location_text : {Str(""), Str("Zaria Road")},
     lga_text : {Str(""), Str("Kaduna North")},
     state_text : {Str(""), Str("Kaduna")},
     scale_text : {Str("1 : 1000"), Str("1 : 500")},
     surveyor_name : {Str(""), Str("A. Musa")},
     surveyor_rank : {Str(""), Str("Surv.")},
     station_names : {List(<<>>), List(<<"P1", "P2", "P3">>)}]

\* the parameters of render_plot_map_layout after output_path, in order
LayoutParams ==
    <<"title_text", "location_text", "lga_text", "state_text", "station_text",
      "scale_text", "crs_footer_text", "source_footer_text", "surveyor_name",
      "surveyor_rank", "station_names">>

\* and their defaults
LayoutDefaults ==
    [title_text |-> Str("SURVEY PLAN"), location_text |-> Str("__________________"),
     lga_text |-> Str("LOCAL GOVERNMENT AREA"), state_text |-> Str("STATE"),
     station_text |-> Str("STATION"), scale_text |-> Str("1 : 1000"),
     crs_footer_text |-> Str("ORIGIN: WGS84)"),
     source_footer_text |-> Str("SOURCE: LandCheck System (MVP)"),
     surveyor_name |-> Str("__________________"),
     surveyor_rank |-> Str("__________________"), station_names |-> PyNone]

\* the arguments both routes pass after map_path, in order
RouteArgs(f) ==
    <<f.title_text, f.location_text, f.lga_text, f.state_text, f.station_text,
      f.scale_text, f.surveyor_name, f.surveyor_rank, f.station_names>>

\* a Python call with positional arguments: parameter k takes argument k, the
\* parameters beyond the arguments take their defaults
BindPositional(args) ==
    [p \in {LayoutParams[k] : k \in DOMAIN LayoutParams} |->
        LET k == CHOOSE j \in DOMAIN LayoutParams : LayoutParams[j] = p
        IN  IF k <= Len(args) THEN args[k] ELSE LayoutDefaults[p]]

\* labels = station_names if station_names else default_labels (first three)
VertexLabels(names) ==
    IF IsTruthy(names) THEN names ELSE List(<<"A", "B", "C">>)

\* draw_title_block, draw_footer, parse_scale_ratio and annotate_vertices: the
\* value each element of the sheet is made from
LayoutSheet(a) ==
    [title_line |-> a.title_text, station_line |-> a.station_text,
     located_at_line |-> a.location_text, lga_line |-> a.lga_text, state_line |-> a.state_text,
     scale_line |-> a.scale_text, parsed_scale |-> a.scale_text,
     surveyor_line |-> a.surveyor_name, rank_line |-> a.surveyor_rank,
     origin_line |-> a.crs_footer_text, source_line |-> a.source_footer_text,
     labels |-> VertexLabels(a.station_names)]

InitForm ==
    /\ form \in Forms
    /\ route = "none"
    /\ call = <<>>
    /\ sheet = <<>>
    /\ fpc = "request"
    /\ IdleExceptForm

\* download_plot_report_pdf: render_plot_map_layout(db, plot_id, map_path, ...)
ReportPdfCall ==
    /\ fpc = "request"
    /\ route' = "report_pdf"
    /\ call' = BindPositional(RouteArgs(form))
    /\ fpc' = "called"
    /\ UNCHANGED <<form, sheet, exceptForm>>

\* preview_plot_map: render_plot_map_layout(db, plot_id, map_path, ...)
PreviewCall ==
    /\ fpc = "request"
    /\ route' = "preview"
    /\ call' = BindPositional(RouteArgs(form))
    /\ fpc' = "called"
    /\ UNCHANGED <<form, sheet, exceptForm>>

\* the body of render_plot_map_layout
DrawSheet ==
    /\ fpc = "called"
    /\ sheet' = LayoutSheet(call)
    /\ fpc' = "drawn"
    /\ UNCHANGED <<form, route, call, exceptForm>>

NextForm == ReportPdfCall \/ PreviewCall \/ DrawSheet

SpecForm == InitForm /\ [][NextForm]_vars

\* C23: each layout field supplied in a survey-plan export request reaches
\* the layout element of the same name: the surveyor name and rank are printed
\* on the SURVEYOR and RANK lines, the scale text is the one parsed and
\* printed, a supplied station-name list labels the vertices, and no supplied
\* field is rendered in another field's place.
C23_FieldsReachElements ==
    fpc = "drawn" =>
        /\ sheet.surveyor_line = form.surveyor_name
        /\ sheet.rank_line = form.surveyor_rank
        /\ sheet.scale_line = form.scale_text /\ sheet.parsed_scale = form.scale_text
        /\ IsTruthy(form.station_names) => sheet.labels = form.station_names
        /\ sheet.origin_line \notin {form.surveyor_name, form.surveyor_rank, form.station_names}
        /\ sheet.source_line \notin {form.surveyor_name, form.surveyor_rank, form.station_names}

\* what the code does: the six fields of the title block reach their
\* elements; the surveyor name is printed as the origin line of the footer,
\* the rank as its source line, the station-name list on the SURVEYOR line,
\* the RANK line keeps its default and the vertices keep the default labels
FieldsShiftedByTwo ==
    fpc = "drawn" =>
        /\ sheet.title_line = form.title_text /\ sheet.station_line = form.station_text
        /\ sheet.located_at_line = form.location_text /\ sheet.lga_line = form.lga_text
        /\ sheet.state_line = form.state_text
        /\ sheet.scale_line = form.scale_text /\ sheet.parsed_scale = form.scale_text
        /\ sheet.origin_line = form.surveyor_name
        /\ sheet.source_line = form.surveyor_rank
        /\ sheet.surveyor_line = form.station_names
        /\ sheet.rank_line = LayoutDefaults.surveyor_rank
        /\ sheet.labels = List(<<"A", "B", "C">>)

----------------------------------------------------------------------------
(* render_back_computation_pdf: the rows on the pages, lengths in 1e-4 pt *)

\* the most rows of a table
MaxRows == 40

\* width, height = landscape(A4): the height, 210 mm in points
landscape_height == 5952756

\* top_y = height - 40; row_y = top_y - 60; row_h = 22; table_bottom_limit = 60
top_y == landscape_height - 400000
row_y == top_y - 600000
row_h == 220000
table_bottom_limit == 600000

\* the line under the column titles: c.line(..., row_y - 6, ..., row_y - 6)
title_line_y == row_y - 60000

\* the new page is started one row late
PageFullLate(y) == y < table_bottom_limit - row_h

\* if y < table_bottom_limit
PageFull(y) == y < table_bottom_limit

InitTable ==
    /\ t_rows \in 0..MaxRows
    /\ t_i = 0
    /\ t_y = 0
    /\ t_page = 1
    /\ t_titled = {}
    /\ t_drawn = <<>>
    /\ tpc = "header"
    /\ IdleExceptTable

\* the header, the area and the column titles of page 1; y = row_y - row_h
TableHeader ==
    /\ tpc = "header"
    /\ t_titled' = {1}
    /\ t_y' = row_y - row_h
    /\ tpc' = "rows"
    /\ UNCHANGED <<t_rows, t_i, t_page, t_drawn, exceptTable>>

\* one pass of `for r in rows`: the row is drawn at y, y goes down a row,
\* and when it is below the limit the page is ended and the header and the
\* column titles are redrawn on the next one
TableRow ==
    /\ tpc = "rows"
    /\ t_i < t_rows
    /\ t_drawn' = Append(t_drawn, [item |-> t_i + 1, page |-> t_page, y |-> t_y])
    /\ t_i' = t_i + 1
    /\ IF PageFull(t_y - row_h)
       THEN /\ t_page' = t_page + 1
            /\ t_titled' = t_titled \cup {t_page + 1}
            /\ t_y' = row_y - row_h
       ELSE /\ t_y' = t_y - row_h
            /\ UNCHANGED <<t_page, t_titled>>
    /\ UNCHANGED <<t_rows, tpc, exceptTable>>

\* after the loop: the totals row at y (item 0), the footer, c.save()
TableTotal ==
    /\ tpc = "rows"
    /\ t_i >= t_rows
    /\ t_drawn' = Append(t_drawn, [item |-> 0, page |-> t_page, y |-> t_y])
    /\ tpc' = "saved"
    /\ UNCHANGED <<t_rows, t_i, t_y, t_page, t_titled, exceptTable>>

NextTable == TableHeader \/ TableRow \/ TableTotal

SpecTable == InitTable /\ [][NextTable]_vars

\* a drawn row is on a page that has its header and column titles, below
\* the line under the titles and not below the bottom limit
WellPlaced(d) ==
    /\ d.page \in t_titled
    /\ d.y < title_line_y
    /\ d.y >= table_bottom_limit

\* C21: for every number of rows (0 and exact multiples of the page capacity
\* included) every data row and the totals row is drawn exactly once, in
\* input order with the totals row last, at a position not below the table's
\* bottom limit and below the column-title line of a page on which the
\* header and column titles have been drawn.
C21_EveryRowOnce ==
    /\ \A k \in 1..Len(t_drawn) : WellPlaced(t_drawn[k])
    /\ \A k \in 1..Len(t_drawn) : k <= t_rows => t_drawn[k].item = k
    /\ \A k \in 1..(Len(t_drawn) - 1) :
          \/ t_drawn[k + 1].page = t_drawn[k].page /\ t_drawn[k + 1].y < t_drawn[k].y
          \/ t_drawn[k + 1].page = t_drawn[k].page + 1
    /\ tpc = "saved" =>
          /\ Len(t_drawn) = t_rows + 1
          /\ t_drawn[t_rows + 1].item = 0
    /\ tpc # "saved" => Len(t_drawn) = t_i /\ t_i <= t_rows

\* a table of twice the capacity of a page: the totals row is alone under the
\* titles of the third page
C21_Witness ==
    /\ tpc = "saved"
    /\ t_rows = 38
    /\ t_drawn[19].page = 1 /\ t_drawn[20].page = 2 /\ t_drawn[38].page = 2
    /\ t_drawn[39] = [item |-> 0, page |-> 3, y |-> row_y - row_h]
    /\ t_titled = {1, 2, 3}

\* a page holds 19 rows
NineteenRowsPerPage ==
    \A k \in 1..Len(t_drawn) : t_drawn[k].page = ((k - 1) \div 19) + 1

----------------------------------------------------------------------------
(* The features in the CAD file *)

\* the layer of a feature type
LayerOf(t) ==
    CASE t = "building" -> "BUILDINGS"
      [] t = "road" -> "ROADS"
      [] t = "river" -> "RIVERS"
      [] OTHER -> "none"

\* the features create_plot stores: buildings from multipolygons, roads and
\* rivers from lines and multilinestrings
IsStoredFeature(r) ==
    \/ r.feature_type = "building" /\ r.geom_type \in {"Polygon", "MultiPolygon"}
    \/ r.feature_type \in {"road", "river"} /\ r.geom_type \in {"LineString", "MultiLineString"}

\* the entities of the saved file, as a set
SavedEntities == {cad_file.doc.msp[k] : k \in DOMAIN cad_file.doc.msp}

\* one line entity per consecutive pair of each list, on the layer
ChainsOf(lists, layer) ==
    UNION { {add_line(lists[j][k], lists[j][k + 1], layer) : k \in 1..(Len(lists[j]) - 1)} :
            j \in DOMAIN lists }

\* C25: in the CAD file every stored feature of the plot is drawn on the
\* layer of its type: a line or multi-line as one line entity per consecutive
\* pair, a polygon or multi-polygon as a closed chain for each of its rings,
\* exterior and interior; no feature with a geometry is left out.
C25_EveryFeatureDrawn ==
    cad_pc = "saved" =>
        \A k \in DOMAIN cad_rows :
            IsStoredFeature(cad_rows[k]) =>
                /\ ChainsOf(cad_rows[k].parts, LayerOf(cad_rows[k].feature_type)) \subseteq SavedEntities
                /\ ChainsOf(cad_rows[k].holes, LayerOf(cad_rows[k].feature_type)) \subseteq SavedEntities

\* what the code draws: the lines and the exterior rings of every stored
\* feature, on the layer of its type, and no line of an interior ring
ExteriorsAndLinesDrawn ==
    cad_pc = "saved" =>
        \A k \in DOMAIN cad_rows :
            IsStoredFeature(cad_rows[k]) =>
                /\ ChainsOf(cad_rows[k].parts, LayerOf(cad_rows[k].feature_type)) \subseteq SavedEntities
                /\ ChainsOf(cad_rows[k].holes, LayerOf(cad_rows[k].feature_type)) \cap SavedEntities = {}

----------------------------------------------------------------------------
(* The figures of the raster exports *)

\* the figures pyplot holds open
OpenFigures == {figs[k] : k \in DOMAIN figs}

\* request r has left its route, with a response or with an exception
Returned(r) == reqs[r].pc \in {"done", "failed"}

\* C29: every figure a raster export creates is closed by the time the export
\* returns, whether it returns normally or fails at a step after the figure
\* was created: no figure of a returned call is left open.
C29_FiguresClosed ==
    \A r \in Requests :
        (Returned(r) /\ reqs[r].fig # 0) => reqs[r].fig \notin OpenFigures

\* what the code keeps: plt.close(fig) is the last statement of both
\* renderers, so the figure is closed when the renderer returns, and stays
\* open when savefig raises
FiguresClosedOnReturn ==
    \A r \in Requests :
        /\ (reqs[r].pc \in {"embed", "flush_doc", "respond", "done"} /\ reqs[r].fig # 0) =>
              reqs[r].fig \notin OpenFigures
        /\ (reqs[r].pc = "failed" /\ reqs[r].err = "OSError: savefig") =>
              reqs[r].fig \in OpenFigures
        /\ (reqs[r].pc = "failed" /\ reqs[r].fig # 0 /\ reqs[r].err # "OSError: savefig") =>
              reqs[r].fig \notin OpenFigures

----------------------------------------------------------------------------
(* create_plot and the store: s_plots, s_buffers and s_features are the
   committed rows, which every session sees; s_tx holds each creating
   session's position and its rows not yet committed *)

\* the sessions that create a plot
Creators == {1, 2}

NoTx == [pc |-> "start", id |-> 0, buffers |-> 0, features |-> FALSE, err |-> "none"]

InitStore ==
    /\ s_plots = {}
    /\ s_buffers = <<>>
    /\ s_features = {}
    /\ s_tx = [c \in Creators |-> NoTx]
    /\ s_next = 1
    /\ s_seen = {}
    /\ IdleExceptStore

\* plot = Plot(geom=geom); db.add(plot); db.commit(); db.refresh(plot)
CommitPlot(c) ==
    /\ s_tx[c].pc = "start"
    /\ s_plots' = s_plots \cup {s_next}
    /\ s_buffers' = (s_next :> 0) @@ s_buffers
    /\ s_tx' = [s_tx EXCEPT ![c].id = s_next, ![c].pc = "buffer"]
    /\ s_next' = s_next + 1
    /\ UNCHANGED <<s_features, s_seen, exceptStore>>

\* INSERT INTO plot_buffers ... FROM plots WHERE id = :plot_id: one row, in the
\* session's open transaction
InsertBuffer(c) ==
    /\ s_tx[c].pc = "buffer"
    /\ s_tx' = [s_tx EXCEPT ![c].buffers = @ + 1, ![c].pc = "features"]
    /\ UNCHANGED <<s_plots, s_buffers, s_features, s_next, s_seen, exceptStore>>

\* the six INSERT INTO detected_features statements, in the same transaction
InsertFeatures(c) ==
    /\ s_tx[c].pc = "features"
    /\ s_tx' = [s_tx EXCEPT ![c].features = TRUE, ![c].pc = "commit"]
    /\ UNCHANGED <<s_plots, s_buffers, s_features, s_next, s_seen, exceptStore>>

\* db.commit(): the buffer row and the feature rows become visible
CommitRows(c) ==
    /\ s_tx[c].pc = "commit"
    /\ s_buffers' = [s_buffers EXCEPT ![s_tx[c].id] = @ + s_tx[c].buffers]
    /\ s_features' = s_features \cup {s_tx[c].id}
    /\ s_tx' = [s_tx EXCEPT ![c].buffers = 0, ![c].features = FALSE, ![c].pc = "done"]
    /\ UNCHANGED <<s_plots, s_next, s_seen, exceptStore>>

\* a statement after the first commit raises: the exception leaves the route,
\* get_db closes the session, which rolls the open transaction back; the plot
\* row was committed before
CreateFails(c) ==
    /\ s_tx[c].pc \in {"buffer", "features", "commit"}
    /\ s_tx' = [s_tx EXCEPT ![c].buffers = 0, ![c].features = FALSE, ![c].pc = "failed",
                            ![c].err = "DBAPIError"]
    /\ UNCHANGED <<s_plots, s_buffers, s_features, s_next, s_seen, exceptStore>>

\* render_plot_map_layout for a visible plot, in a session of its own:
\* if buffer_wkb is None: raise ValueError("Buffer for plot ... not found")
ExportVisible(p) ==
    /\ p \in s_plots
    /\ s_seen' = s_seen \cup
          {[plot |-> p, result |-> IF s_buffers[p] = 0 THEN "ValueError: Buffer not found"
                                   ELSE "rendered"]}
    /\ UNCHANGED <<s_plots, s_buffers, s_features, s_tx, s_next, exceptStore>>

NextStore ==
    \/ \E c \in Creators :
          \/ CommitPlot(c)
          \/ InsertBuffer(c)
          \/ InsertFeatures(c)
          \/ CommitRows(c)
          \/ CreateFails(c)
    \/ \E p \in 1..2 : ExportVisible(p)

SpecStore == InitStore /\ [][NextStore]_vars

\* C30: plot creation is atomic with respect to the store: in every state
\* another request can observe, and after create_plot fails at any step, a
\* plot row is visible only together with exactly one buffer row for it and
\* its detected-feature rows; hence a survey-plan export of a visible plot
\* never fails with 'buffer not found'.
C30_CreateAtomic ==
    /\ \A p \in s_plots : s_buffers[p] = 1 /\ p \in s_features
    /\ \A o \in s_seen : o.result # "ValueError: Buffer not found"

\* what the code keeps: the buffer row and the feature rows of a plot become
\* visible together, never without the plot row and never twice, and they
\* are there once create_plot has returned; the plot row is visible alone
\* while create_plot runs and for good after it failed
RowsFollowPlot ==
    /\ \A p \in DOMAIN s_buffers : p \in s_plots /\ s_buffers[p] \in {0, 1}
    /\ \A p \in s_plots : s_buffers[p] = 1 <=> p \in s_features
    /\ \A c \in Creators :
          /\ s_tx[c].pc = "done" => s_buffers[s_tx[c].id] = 1
          /\ s_tx[c].pc \in {"buffer", "features", "commit", "failed"} =>
                (s_tx[c].id \in s_plots /\ s_buffers[s_tx[c].id] = 0)

=============================================================================
